---------------------------- MODULE Spec2Model ----------------------------
(***************************************************************************)
(* A model of the IRC bot's core: the plugin registry                      *)
(* (internal/plugin/manager.go), the user-level resolver                   *)
(* (internal/userlevels), the rate limiter (internal/security), the        *)
(* channel/private message handlers and the command router                 *)
(* (internal/handlers, internal/commands) and the owner verification.      *)
(*                                                                         *)
(* Strings that the code splits on "!" (hostmasks, nicknames used as map   *)
(* keys) are modelled as the sequence of their "!"-separated segments:     *)
(* "al!u@h" is <<"al", "u@h">>, "al" is <<"al">>, and s + "!*@*" appends   *)
(* the segment "*@*".                                                      *)
(***************************************************************************)
EXTENDS Integers, Sequences, FiniteSets, TLC

VARIABLES
    plugins,        \* mgr.plugins: the entries of the map name -> pluginInfo
    pluginPaths,    \* mgr.pluginPaths: the entries of the map name -> path
    call,           \* per caller: the registry call in progress and its result
    pnow,           \* the wall clock read by LoadPlugin (time.Now)
    tracker,        \* security.GlobalMessageTracker
    now,            \* the wall clock read by the tracker (time.Now), in seconds
    trackHist,      \* history: every Track call made, per timestamp list
    users,          \* userlevels.users: level by nickname
    hostmaskUsers,  \* userlevels.hostmaskUsers: level by hostmask
    settings,       \* the settings file (data/settings.toml)
    pending,        \* handlers.PendingVerifications
    channelSettings,\* commands.BotConfig.ChannelSettings
    ev,             \* the last chat line handled and what handling it did
    loop,           \* the client's read loop: its position, the events received
                    \* and the OnMessage calls made
    task            \* the goroutine of the delayed verification request, and
                    \* whether the read loop is inside checkPendingVerification

pvars == <<plugins, pluginPaths, call, pnow>>

rvars == <<tracker, now, trackHist>>

cvars == <<users, hostmaskUsers, settings, pending, channelSettings, ev>>

lvars == <<loop, task>>

vars == <<plugins, pluginPaths, call, pnow, tracker, now, trackHist,
          users, hostmaskUsers, settings, pending, channelSettings, ev, loop, task>>

(***************************************************************************)
(* Bounds of the model.                                                    *)
(***************************************************************************)
MaxPluginClock == 3

\* The tracker's clock stops here.
MaxRateTime == 4

\* Windows set at run time range over 1..MaxRateWindow seconds.
MaxRateWindow == 3

\* Maxima set at run time range over 1..MaxRateMax.
MaxRateMax == 2

\* The tracker's calls of the reset and set runs end at this time, in seconds.
MaxTrackerTime == 4

\* Warning thresholds set at run time range over 1..MaxWarningThreshold.
MaxWarningThreshold == 3

\* The number of chat lines received.
MaxChatTime == 3

\* The number of protocol events read from the connection.
MaxEvents == 3

\* The number of those events whose handling calls the registry.
MaxLoopCalls == 1

(***************************************************************************)
(*                          THE PLUGIN REGISTRY                            *)
(***************************************************************************)

\* The one goroutine that calls the registry: the client's handler loop (and,
\* before it, initializePlugins).
Callers == {"loop"}

\* The shared objects found in the plugins directory, in os.ReadDir's order
\* (sorted by file name).
DirFiles ==
    <<"alpha.so", "alpha_v1.so", "alpha_v2.so", "badtype.so", "beta_v1.so", "beta_v2.so",
      "broken.so", "nosym.so">>

ArtifactPaths == {DirFiles[i] : i \in 1..Len(DirFiles)}

\* The methods of interface Plugin, which the type assertion of LoadPlugin
\* requires of the exported value.
PluginInterface == {"Name", "Version", "OnLoad", "OnMessage"}

\* The optional event handler interfaces, by their one method.
EventHandlers ==
    {"OnPrivMsg", "OnNickMention", "OnKick", "OnTopicChange", "OnJoin", "OnPart", "OnQuit",
     "OnNickChange", "OnInvite", "OnNotice", "OnError", "OnMode"}

\* The exported Plugin value of an artifact: alpha.so is the stable alias of the
\* newest build, the same shared object as alpha_v2.so. The alpha plugins
\* implement Unloader and CommandHandler; the beta artifacts hold the plugin
\* named EchoPlugin, which has no OnUnload method: version 1 answers "!echo"
\* from OnMessage, version 2 implements CommandHandler. Version 2 of alpha
\* implements every event handler interface, version 2 of EchoPlugin two of
\* them, the first versions none.
PluginOf(path) ==
    CASE path = "alpha.so"    -> [obj |-> "alpha_v2", name |-> "alpha", version |-> "2", unloader |-> TRUE,
                                  commandHandler |-> TRUE, commands |-> <<"zap", "echo">>,
                                  handlers |-> EventHandlers]
      [] path = "alpha_v1.so" -> [obj |-> "alpha_v1", name |-> "alpha", version |-> "1", unloader |-> TRUE,
                                  commandHandler |-> TRUE, commands |-> <<"zap">>,
                                  handlers |-> {}]
      [] path = "alpha_v2.so" -> [obj |-> "alpha_v2", name |-> "alpha", version |-> "2", unloader |-> TRUE,
                                  commandHandler |-> TRUE, commands |-> <<"zap", "echo">>,
                                  handlers |-> EventHandlers]
      [] path = "beta_v1.so"  -> [obj |-> "beta_v1", name |-> "EchoPlugin", version |-> "1", unloader |-> FALSE,
                                  commandHandler |-> FALSE, commands |-> <<>>,
                                  handlers |-> {}]
      [] path = "beta_v2.so"  -> [obj |-> "beta_v2", name |-> "EchoPlugin", version |-> "2", unloader |-> FALSE,
                                  commandHandler |-> TRUE, commands |-> <<"echo">>,
                                  handlers |-> {"OnJoin", "OnNickMention"}]
      [] OTHER                -> [obj |-> "none", name |-> "none", version |-> "0", unloader |-> FALSE,
                                  commandHandler |-> FALSE, commands |-> <<>>,
                                  handlers |-> {}]

\* The method set of the value an artifact exports as "Plugin": the value of
\* badtype.so has no OnMessage method.
Methods(path) ==
    IF path = "badtype.so" THEN {"Name", "Version", "OnLoad", "OnUnload"}
    ELSE PluginInterface \cup (IF PluginOf(path).unloader THEN {"OnUnload"} ELSE {})
                         \cup (IF PluginOf(path).commandHandler THEN {"GetCommands", "HandleCommand"} ELSE {})
                         \cup PluginOf(path).handlers

\* What goPlugin.Open / Lookup("Plugin") / the Plugin type assertion give.
ArtifactKindAllOk(path) == "ok"

ArtifactKind(path) ==
    IF path = "broken.so" THEN "open_error"
    ELSE IF path = "nosym.so" THEN "lookup_error"
    ELSE IF ~(PluginInterface \subseteq Methods(path)) THEN "type_error"
    ELSE "ok"

PluginNames == {"alpha", "EchoPlugin"}

\* A Go map as the set of its entries; every entry has a field "name" (the key).
MapHas(m, k) == \E e \in m : e.name = k

MapGet(m, k) == CHOOSE e \in m : e.name = k

\* delete(m, k)
MapDeleteNothing(m, k) == m

MapDelete(m, k) == {e \in m : e.name # k}

\* m[k] = e  (mgr.plugins[pluginName] = info)
MapPutAppend(m, e) == m \cup {e}

MapPut(m, e) == {x \in m : x.name # e.name} \cup {e}

IdleCall ==
    [op |-> "none", pc |-> "idle", path |-> "", name |-> "", files |-> <<>>,
     count |-> 0, status |-> "none", log |-> <<>>, pre |-> {}, prePaths |-> {},
     tried |-> <<>>, arg |-> ""]

\* The hook of plugin object obj was invoked; err is the error it returned.
HookEvent(hook, obj, err) == [hook |-> hook, obj |-> obj, err |-> err]

\* existingInfo.version == pluginVersion
SameVersionNever(info, version) == FALSE

SameVersion(info, version) == info.version = version

\* LoadPlugin returns to its caller: the command handler, or the loop of
\* LoadPluginsFromDir, which counts the successes (c.tried keeps the artifacts
\* the loop has passed to LoadPlugin and what each call returned).
ReturnFromLoadCountAll(c, ok) ==
    IF c.op \in {"scan", "reload"}
    THEN [c EXCEPT !.pc = "scan_next", !.count = @ + 1,
                   !.tried = Append(@, [path |-> c.path, ok |-> ok])]
    ELSE [c EXCEPT !.pc = "idle", !.status = IF ok THEN "ok" ELSE "error"]

ReturnFromLoad(c, ok) ==
    IF c.op \in {"scan", "reload"}
    THEN [c EXCEPT !.pc = "scan_next", !.count = IF ok THEN @ + 1 ELSE @,
                   !.tried = Append(@, [path |-> c.path, ok |-> ok])]
    ELSE [c EXCEPT !.pc = "idle", !.status = IF ok THEN "ok" ELSE "error"]

StartCall(op, pc, path, name) ==
    [IdleCall EXCEPT !.op = op, !.pc = pc, !.path = path, !.name = name,
                     !.status = "running", !.pre = plugins, !.prePaths = pluginPaths]

\* plugin.LoadPlugin(path) is called.
CallLoad(t, path) ==
    /\ call[t].pc = "idle"
    /\ pnow < MaxPluginClock
    /\ pnow' = pnow + 1
    /\ call' = [call EXCEPT ![t] = StartCall("load", "open", path, "")]
    /\ UNCHANGED <<plugins, pluginPaths>>

\* filepath.Join("./plugins", pluginName+".so") of loadPluginCmd, for the names
\* its argument ranges over (the argument with a trailing ".so" cut off).
PluginPath(pluginName) ==
    CASE pluginName = "alpha" -> "alpha.so"
      [] pluginName = "alpha_v1" -> "alpha_v1.so"
      [] pluginName = "alpha_v2" -> "alpha_v2.so"
      [] OTHER -> "gamma.so"

\* commands.loadPluginCmd with one argument: the artifact must exist, no
\* plugin of the registry may have the argument as its name, and then
\* LoadPlugin is called; c.arg keeps the argument and, where the command
\* answers without a call, c.status the answer.
loadPluginCmd(t, pluginName) ==
    /\ call[t].pc = "idle"
    /\ pnow < MaxPluginClock
    /\ pnow' = pnow + 1
    /\ LET pluginPath == PluginPath(pluginName)
           c == [StartCall("load", "open", pluginPath, "") EXCEPT !.arg = pluginName]
       IN call' = [call EXCEPT ![t] =
                     IF pluginPath \notin ArtifactPaths
                     THEN [c EXCEPT !.pc = "idle", !.status = "not_found"]
                     ELSE IF MapHas(plugins, pluginName)
                     THEN [c EXCEPT !.pc = "idle", !.status = "already_loaded"]
                     ELSE c]
    /\ UNCHANGED <<plugins, pluginPaths>>

\* LoadPlugin: goPlugin.Open, Lookup, the type assertion, Name() and Version().
StepOpen(t) ==
    /\ call[t].pc = "open"
    /\ LET c == call[t]
       IN call' = [call EXCEPT ![t] =
                     IF ArtifactKind(c.path) # "ok"
                     THEN ReturnFromLoad(c, FALSE)
                     ELSE [c EXCEPT !.pc = "check", !.name = PluginOf(c.path).name]]
    /\ UNCHANGED <<plugins, pluginPaths, pnow>>

\* LoadPlugin: the first locked section (the version check and the unload of
\* the previous version).
StepCheck(t) ==
    /\ call[t].pc = "check"
    /\ LET c == call[t]
           plug == PluginOf(c.path)
       IN IF MapHas(plugins, plug.name)
          THEN LET existingInfo == MapGet(plugins, plug.name)
               IN IF SameVersion(existingInfo, plug.version)
                  THEN /\ call' = [call EXCEPT ![t] = ReturnFromLoad(c, TRUE)]
                       /\ UNCHANGED pluginPaths
                  ELSE /\ \E err \in BOOLEAN :
                            call' = [call EXCEPT ![t] =
                               [c EXCEPT !.pc = "onload",
                                         !.log = IF existingInfo.plugin.unloader
                                                 THEN Append(@, HookEvent("OnUnload", existingInfo.plugin.obj, err))
                                                 ELSE @]]
                       /\ pluginPaths' = MapDelete(pluginPaths, plug.name)
          ELSE /\ call' = [call EXCEPT ![t] = [c EXCEPT !.pc = "onload"]]
               /\ UNCHANGED pluginPaths
    /\ UNCHANGED <<plugins, pnow>>

\* LoadPlugin: plug.OnLoad(), outside the lock.
StepOnLoad(t) ==
    /\ call[t].pc = "onload"
    /\ \E err \in BOOLEAN :
         LET c == call[t]
             logged == [c EXCEPT !.log = Append(@, HookEvent("OnLoad", PluginOf(c.path).obj, err))]
         IN call' = [call EXCEPT ![t] =
                       IF err THEN ReturnFromLoad(logged, FALSE)
                       ELSE [logged EXCEPT !.pc = "install"]]
    /\ UNCHANGED <<plugins, pluginPaths, pnow>>

\* LoadPlugin: the second locked section installs the new pluginInfo.
StepInstall(t) ==
    /\ call[t].pc = "install"
    /\ LET c == call[t]
           plug == PluginOf(c.path)
           info == [name |-> plug.name, plugin |-> plug, version |-> plug.version,
                    loadTimestamp |-> pnow, filePath |-> c.path]
       IN /\ plugins' = MapPut(plugins, info)
          /\ pluginPaths' = MapPut(pluginPaths, [name |-> plug.name, path |-> c.path])
          /\ call' = [call EXCEPT ![t] = ReturnFromLoad(c, TRUE)]
    /\ UNCHANGED pnow

\* plugin.UnloadPlugin(name), the whole function (one locked section).
CallUnload(t, name) ==
    /\ call[t].pc = "idle"
    /\ pnow < MaxPluginClock
    /\ pnow' = pnow + 1
    /\ LET c == StartCall("unload", "idle", "", name)
       IN IF ~MapHas(plugins, name)
          THEN /\ call' = [call EXCEPT ![t] = [c EXCEPT !.status = "error"]]
               /\ UNCHANGED <<plugins, pluginPaths>>
          ELSE LET info == MapGet(plugins, name)
               IN /\ \E err \in BOOLEAN :
                       call' = [call EXCEPT ![t] =
                          [c EXCEPT !.status = "ok",
                                    !.log = IF info.plugin.unloader
                                            THEN <<HookEvent("OnUnload", info.plugin.obj, err)>>
                                            ELSE <<>>]]
                  /\ plugins' = MapDelete(plugins, name)
                  /\ pluginPaths' = MapDelete(pluginPaths, name)

\* plugin.LoadPluginsFromDir(dir) is called.
CallScan(t) ==
    /\ call[t].pc = "idle"
    /\ pnow < MaxPluginClock
    /\ pnow' = pnow + 1
    /\ call' = [call EXCEPT ![t] = StartCall("scan", "readdir", "", "")]
    /\ UNCHANGED <<plugins, pluginPaths>>

\* LoadPluginsFromDir: os.ReadDir.
StepReadDir(t) ==
    /\ call[t].pc = "readdir"
    /\ \E readErr \in BOOLEAN :
         LET c == call[t]
         IN call' = [call EXCEPT ![t] =
                       IF readErr
                       THEN [c EXCEPT !.pc = "idle", !.status = "error", !.count = 0]
                       ELSE [c EXCEPT !.pc = "scan_next", !.files = DirFiles]]
    /\ UNCHANGED <<plugins, pluginPaths, pnow>>

\* LoadPluginsFromDir: the head of the loop over the directory's files.
StepScanNext(t) ==
    /\ call[t].pc = "scan_next"
    /\ LET c == call[t]
       IN call' = [call EXCEPT ![t] =
                     IF c.files = <<>>
                     THEN [c EXCEPT !.pc = "idle", !.status = "ok"]
                     ELSE [c EXCEPT !.pc = "open", !.path = Head(c.files), !.files = Tail(c.files)]]
    /\ UNCHANGED <<plugins, pluginPaths, pnow>>

\* All the orders in which a Go map range can visit the entries of m.
RECURSIVE Orders(_)
Orders(m) ==
    IF m = {} THEN {<<>>}
    ELSE UNION {{<<e>> \o rest : rest \in Orders(m \ {e})} : e \in m}

\* The OnUnload calls of the loop of ReloadPluginsFromDir, in the order of the
\* range; errs are the plugins whose hook returns an error.
UnloadLogNone(order, errs) == <<>>

RECURSIVE UnloadLog(_, _)
UnloadLog(order, errs) ==
    IF order = <<>> THEN <<>>
    ELSE (IF Head(order).plugin.unloader
          THEN <<HookEvent("OnUnload", Head(order).plugin.obj, Head(order).name \in errs)>>
          ELSE <<>>) \o UnloadLog(Tail(order), errs)

\* plugin.ReloadPluginsFromDir(dir): the locked loop that unloads every plugin;
\* the scan follows.
CallReload(t) ==
    /\ call[t].pc = "idle"
    /\ pnow < MaxPluginClock
    /\ pnow' = pnow + 1
    /\ \E order \in Orders(plugins), errs \in SUBSET {e.name : e \in plugins} :
         call' = [call EXCEPT ![t] =
                    [StartCall("reload", "readdir", "", "") EXCEPT !.log = UnloadLog(order, errs)]]
    /\ plugins' = {}
    /\ pluginPaths' = {e \in pluginPaths : ~MapHas(plugins, e.name)}

PluginInit ==
    /\ plugins = {}
    /\ pluginPaths = {}
    /\ call = [t \in Callers |-> IdleCall]
    /\ pnow = 0

PluginNext ==
    \E t \in Callers :
        \/ \E path \in ArtifactPaths : CallLoad(t, path)
        \/ StepOpen(t)
        \/ StepCheck(t)
        \/ StepOnLoad(t)
        \/ StepInstall(t)
        \/ \E name \in PluginNames : CallUnload(t, name)
        \/ CallScan(t)
        \/ StepReadDir(t)
        \/ StepScanNext(t)
        \/ CallReload(t)


(***************************************************************************)
(*                           THE RATE LIMITER                              *)
(***************************************************************************)

\* Go maps with string keys, as functions on the set of keys present.
Has(m, k) == k \in DOMAIN m

Get(m, k, zero) == IF k \in DOMAIN m THEN m[k] ELSE zero

Put(m, k, v) == [x \in DOMAIN m \cup {k} |-> IF x = k THEN v ELSE m[x]]

Del(m, k) == [x \in DOMAIN m \ {k} |-> m[x]]

EmptyMap == [x \in {} |-> 0]

\* The defaults of NewMessageTracker.
DefaultMessageWindow == 10

DefaultMaxMessagesPerWindow == 5

DefaultCommandWindow == 30

DefaultMaxCommandsPerWindow == 10

DefaultWarningThreshold == 3

NewMessageTracker ==
    [userMessages |-> EmptyMap, userCommandUsage |-> EmptyMap, warningCounts |-> EmptyMap,
     messageWindow |-> DefaultMessageWindow,
     maxMessagesPerWindow |-> DefaultMaxMessagesPerWindow,
     commandWindow |-> DefaultCommandWindow,
     maxCommandsPerWindow |-> DefaultMaxCommandsPerWindow,
     warningThreshold |-> DefaultWarningThreshold]

\* t.After(cutoff)
After(t, cutoff) == t > cutoff

\* The loop that keeps the timestamps inside the window.
PruneNothing(ts, cutoff) == ts

RECURSIVE Prune(_, _)
Prune(ts, cutoff) ==
    IF ts = <<>> THEN <<>>
    ELSE (IF After(Head(ts), cutoff) THEN <<Head(ts)>> ELSE <<>>) \o Prune(Tail(ts), cutoff)

\* count > max
ExceedsAtMax(count, max) == count >= max

Exceeds(count, max) == count > max

\* MessageTracker.TrackMessage at time t: the tracker afterwards and the result.
TrackMessage(m, hostmask, t) ==
    LET appended == Append(Get(m.userMessages, hostmask, <<>>), t)
        newMessages == Prune(appended, t - m.messageWindow)
        messageCount == Len(newMessages)
    IN [m |-> [m EXCEPT !.userMessages = Put(@, hostmask, newMessages)],
        exceeded |-> Exceeds(messageCount, m.maxMessagesPerWindow),
        count |-> messageCount]

\* MessageTracker.TrackCommand at time t.
TrackCommand(m, hostmask, commandName, t) ==
    LET usage == Get(m.userCommandUsage, hostmask, EmptyMap)
        appended == Append(Get(usage, commandName, <<>>), t)
        newCommands == Prune(appended, t - m.commandWindow)
        commandCount == Len(newCommands)
    IN [m |-> [m EXCEPT !.userCommandUsage = Put(@, hostmask, Put(usage, commandName, newCommands))],
        exceeded |-> Exceeds(commandCount, m.maxCommandsPerWindow),
        count |-> commandCount]

\* MessageTracker.AddWarning: the tracker afterwards and the result.
AddWarningByTwo(m, hostmask) ==
    LET n == Get(m.warningCounts, hostmask, 0) + 2
    IN [m |-> [m EXCEPT !.warningCounts = Put(@, hostmask, n)],
        reached |-> n >= m.warningThreshold]

AddWarning(m, hostmask) ==
    LET n == Get(m.warningCounts, hostmask, 0) + 1
    IN [m |-> [m EXCEPT !.warningCounts = Put(@, hostmask, n)],
        reached |-> n >= m.warningThreshold]

GetWarningCount(m, hostmask) == Get(m.warningCounts, hostmask, 0)

\* MessageTracker.ResetUser
ResetUser(m, hostmask) ==
    [m EXCEPT !.userMessages = Del(@, hostmask),
              !.userCommandUsage = Del(@, hostmask),
              !.warningCounts = Del(@, hostmask)]

\* The identities and command names the tracker is called with.
RateUsers == {<<"al", "u@h1">>, <<"bo", "u@h3">>}

RateCommands == {"say"}

\* The history of one timestamp list: the time and the result of each Track
\* call made on it.
HistEntry(t, res) == [t |-> t, exceeded |-> res.exceeded, count |-> res.count]

NoHist == [x \in {} |-> <<>>]

\* A call of GlobalMessageTracker.TrackMessage(hostmask), gap seconds after the
\* previous event.
DoTrackMessage(hostmask, gap) ==
    /\ now + gap <= MaxRateTime
    /\ now' = now + gap
    /\ LET r == TrackMessage(tracker, hostmask, now')
           key == <<"msg", hostmask, "">>
       IN /\ tracker' = r.m
          /\ trackHist' = Put(trackHist, key, Append(Get(trackHist, key, <<>>), HistEntry(now', r)))

\* A call of GlobalMessageTracker.TrackCommand(hostmask, commandName).
DoTrackCommand(hostmask, commandName, gap) ==
    /\ now + gap <= MaxRateTime
    /\ now' = now + gap
    /\ LET r == TrackCommand(tracker, hostmask, commandName, now')
           key == <<"cmd", hostmask, commandName>>
       IN /\ tracker' = r.m
          /\ trackHist' = Put(trackHist, key, Append(Get(trackHist, key, <<>>), HistEntry(now', r)))

\* The windows and maxima an administrator has set with "!ratelimit set"
\* (values of at least 1) before the identities of RateUsers send anything.
RateSet(m, mw, mm, cw, cm) ==
    [m EXCEPT !.messageWindow = mw, !.maxMessagesPerWindow = mm,
              !.commandWindow = cw, !.maxCommandsPerWindow = cm]

\* The setters of the tracker, as "!ratelimit set <param> <value>" calls them.
TrackerParams == {"msg-window", "msg-max", "cmd-window", "cmd-max", "warning"}

ParamValues(param) ==
    IF param \in {"msg-window", "cmd-window"} THEN 1..MaxRateWindow
    ELSE IF param = "warning" THEN 1..MaxWarningThreshold
    ELSE 1..MaxRateMax

SetParam(m, param, value) ==
    CASE param = "msg-window" -> [m EXCEPT !.messageWindow = value]
      [] param = "msg-max"    -> [m EXCEPT !.maxMessagesPerWindow = value]
      [] param = "cmd-window" -> [m EXCEPT !.commandWindow = value]
      [] param = "cmd-max"    -> [m EXCEPT !.maxCommandsPerWindow = value]
      [] OTHER                -> [m EXCEPT !.warningThreshold = value]

\* The calls below are made a second after the previous call, up to
\* MaxTrackerTime; the Track calls gap seconds after it.
TrackMessageAt(hostmask, gap) == now + gap <= MaxTrackerTime /\ DoTrackMessage(hostmask, gap)

TrackCommandAt(hostmask, commandName, gap) ==
    now + gap <= MaxTrackerTime /\ DoTrackCommand(hostmask, commandName, gap)

\* A call of GlobalMessageTracker.AddWarning(hostmask); the history keeps its
\* result, the new count and the threshold in force.
DoAddWarning(hostmask) ==
    /\ now < MaxTrackerTime
    /\ now' = now + 1
    /\ LET r == AddWarning(tracker, hostmask)
           key == <<"warn", hostmask, "">>
       IN /\ tracker' = r.m
          /\ trackHist' = Put(trackHist, key,
                              Append(Get(trackHist, key, <<>>),
                                     [t |-> now', exceeded |-> r.reached,
                                      count |-> GetWarningCount(r.m, hostmask),
                                      threshold |-> tracker.warningThreshold]))

\* A call of GlobalMessageTracker.ResetUser(hostmask); the history of the
\* identity's warnings starts again.
DoResetUser(hostmask) ==
    /\ now < MaxTrackerTime
    /\ now' = now + 1
    /\ tracker' = ResetUser(tracker, hostmask)
    /\ trackHist' = Del(trackHist, <<"warn", hostmask, "">>)

\* "!ratelimit set <param> <value>" with a value of at least 1.
DoSetParam(param, value) ==
    /\ now < MaxTrackerTime
    /\ now' = now + 1
    /\ tracker' = SetParam(tracker, param, value)
    /\ UNCHANGED trackHist

TrackerNext ==
    \/ \E h \in RateUsers, gap \in 1..MaxTrackerTime : TrackMessageAt(h, gap)
    \/ \E h \in RateUsers, c \in RateCommands, gap \in 1..MaxTrackerTime : TrackCommandAt(h, c, gap)
    \/ \E h \in RateUsers : DoAddWarning(h)
    \/ \E h \in RateUsers : DoResetUser(h)
    \/ \E param \in TrackerParams : \E value \in ParamValues(param) : DoSetParam(param, value)

RateIdle ==
    /\ tracker = NewMessageTracker
    /\ now = 0
    /\ trackHist = NoHist

RateInit ==
    /\ \E mw \in 1..MaxRateWindow, mm \in 1..MaxRateMax,
          cw \in 1..MaxRateWindow, cm \in 1..MaxRateMax :
            tracker = RateSet(NewMessageTracker, mw, mm, cw, cm)
    /\ now = 0
    /\ trackHist = NoHist

RateNext ==
    \/ \E h \in RateUsers, gap \in 1..MaxRateTime : DoTrackMessage(h, gap)
    \/ \E h \in RateUsers, c \in RateCommands, gap \in 1..MaxRateTime : DoTrackCommand(h, c, gap)

(***************************************************************************)
(*                    PERMISSION LEVELS AND SETTINGS                       *)
(***************************************************************************)

\* A string that holds "!" separators is the sequence of the segments between
\* them: "al!u@h1" is <<"al", "u@h1">> and the nickname "al" is <<"al">>.
Join(a, b) == a \o b

\* strings.Split(s, "!")[0]
Split0(s) == <<Head(s)>>

\* strings.HasPrefix(hostmask, target + "!")
HasPrefixBang(hostmask, target) ==
    Len(hostmask) > Len(target) /\ SubSeq(hostmask, 1, Len(target)) = target

\* strings.ToLower on the nicknames of the model.
ToLower(s) == IF s = "AL" THEN "al" ELSE s

\* strings.EqualFold
EqualFold(a, b) == ToLower(a) = ToLower(b)

EqualFoldBang(a, b) ==
    Len(a) = Len(b) /\ \A i \in 1..Len(a) : EqualFold(a[i], b[i])

\* The hostmask arguments that occur in command lines.
SplitBang(word) ==
    CASE word = "bo!u@h3" -> <<"bo", "u@h3">>
      [] word = "al!u@h1" -> <<"al", "u@h1">>
      [] OTHER -> <<word>>

Ignored == 0

BadBoy == 1

Regular == 2

Admin == 3

Owner == 4

LevelName(level) ==
    CASE level = Ignored -> "Ignored"
      [] level = BadBoy -> "BadBoy"
      [] level = Regular -> "Regular"
      [] level = Admin -> "Admin"
      [] level = Owner -> "Owner"
      [] OTHER -> "Unknown"

\* config.Settings, zero value.
ZeroSettings ==
    [ownerVerified |-> FALSE, ownerPasshash |-> <<>>, ownerHostmask |-> <<>>,
     hostmaskLevels |-> FALSE, hostmasks |-> EmptyMap]

\* The settings file: absent, readable with its contents, or undecodable.
AbsentFile == [file |-> "absent", data |-> ZeroSettings]

CorruptFile == [file |-> "corrupt", data |-> ZeroSettings]

\* config.LoadSettings
LoadSettings(f) ==
    IF f.file = "absent" THEN [err |-> FALSE, s |-> ZeroSettings]
    ELSE IF f.file = "corrupt" THEN [err |-> TRUE, s |-> ZeroSettings]
    ELSE [err |-> FALSE, s |-> f.data]

\* What a call of config.SaveSettings can do: write the file; fail to create it
\* (the file is untouched); fail while encoding, after os.Create has truncated
\* the file, leaving it empty or cut short.
SaveOutcomes == {"ok", "create_error", "encode_error_empty", "encode_error_partial"}

\* config.SaveSettings
SaveSettings(f, s, outcome) ==
    CASE outcome = "ok" -> [file |-> "ok", data |-> s]
      [] outcome = "create_error" -> f
      [] outcome = "encode_error_empty" -> [file |-> "ok", data |-> ZeroSettings]
      [] OTHER -> CorruptFile

\* A caller that takes every write for a success.
SaveNeverFailed(outcome) == FALSE

\* err != nil after config.SaveSettings or userlevels.SaveHostmasks
SaveFailed(outcome) == outcome # "ok"

\* security.GenerateHash: the encoded hash of the passphrase (the salt is left out).
GenerateHash(passphrase) == <<"argon2id", passphrase>>

\* The state the handlers work on: w.users and w.hostmaskUsers are the maps of
\* package userlevels, w.settings the settings file, w.tracker the tracker,
\* w.pending the map PendingVerifications; w.sent, w.ran, w.offered and w.ai
\* collect what the handling of one line sends and calls.

\* userlevels.SetUserLevel
SetUserLevel(w, nick, level) ==
    [w EXCEPT !.users = Put(@, nick, level),
              !.hostmaskUsers = Put(@, Join(nick, <<"*@*">>), level)]

\* userlevels.SetUserLevelByHostmask
SetUserLevelByHostmask(w, hostmask, level) ==
    [w EXCEPT !.hostmaskUsers = Put(@, hostmask, level),
              !.users = Put(@, Split0(hostmask), level)]

\* settings.OwnerVerified && settings.OwnerHostmask != "" with err == nil
OwnerOnRecord(ld) == ~ld.err /\ ld.s.ownerVerified /\ ld.s.ownerHostmask # <<>>

\* userlevels.GetUserLevelByHostmask
GetUserLevelNickFirst(w, hostmask) ==
    IF Has(w.users, Split0(hostmask)) THEN w.users[Split0(hostmask)]
    ELSE IF Has(w.hostmaskUsers, hostmask) THEN w.hostmaskUsers[hostmask]
    ELSE IF OwnerOnRecord(LoadSettings(w.settings))
             /\ hostmask = LoadSettings(w.settings).s.ownerHostmask THEN Owner
    ELSE Regular

GetUserLevelByHostmask(w, hostmask) ==
    IF Has(w.hostmaskUsers, hostmask) THEN w.hostmaskUsers[hostmask]
    ELSE IF OwnerOnRecord(LoadSettings(w.settings))
             /\ hostmask = LoadSettings(w.settings).s.ownerHostmask THEN Owner
    ELSE IF Has(w.users, Split0(hostmask)) THEN w.users[Split0(hostmask)]
    ELSE Regular

\* userlevels.IsVerifiedOwner
IsVerifiedOwner(w, hostmask) ==
    IF ~OwnerOnRecord(LoadSettings(w.settings))
    THEN \E storedNick \in DOMAIN w.users :
            EqualFoldBang(storedNick, Split0(hostmask)) /\ w.users[storedNick] = Owner
    ELSE hostmask = LoadSettings(w.settings).s.ownerHostmask

\* userLevel >= required
AtLeast(userLevel, required) == userLevel >= required

\* A check that lets every sender pass.
HasPermissionAlways(w, hostmask, required) == TRUE

\* userlevels.HasPermission
HasPermission(w, hostmask, required) ==
    IF GetUserLevelByHostmask(w, hostmask) = Ignored THEN FALSE
    ELSE IF required = Owner THEN IsVerifiedOwner(w, hostmask)
    ELSE AtLeast(GetUserLevelByHostmask(w, hostmask), required)

\* userlevels.GetAllHostmasks
GetAllHostmasks(w) ==
    IF OwnerOnRecord(LoadSettings(w.settings))
    THEN Put(w.hostmaskUsers, LoadSettings(w.settings).s.ownerHostmask, Owner)
    ELSE w.hostmaskUsers

\* userlevels.SaveHostmasks: the state afterwards; the error is SaveFailed(outcome).
\* userlevels.SaveHostmasks; readFails says that config.LoadSettings returns an
\* error although the file is sound (the file cannot be opened or read).
SaveHostmasksRead(w, readFails, outcome) ==
    LET ld == IF readFails THEN [err |-> TRUE, s |-> ZeroSettings] ELSE LoadSettings(w.settings)
        base == IF ld.err THEN ZeroSettings ELSE ld.s
        s == [base EXCEPT !.hostmasks = w.hostmaskUsers, !.hostmaskLevels = TRUE]
    IN [w EXCEPT !.settings = SaveSettings(@, s, outcome)]

SaveHostmasks(w, outcome) == SaveHostmasksRead(w, FALSE, outcome)

\* userlevels.LoadHostmasks: the maps it can leave. The entries are applied in
\* the order of the saved list, which is the iteration order of a map, so a
\* nickname with several entries gets the level of any one of them.
LoadHostmasks(w) ==
    LET ld == LoadSettings(w.settings)
        entries == ld.s.hostmasks
        nicks == {Split0(h) : h \in DOMAIN entries}
    IN IF ld.err \/ ~ld.s.hostmaskLevels THEN {w}
       ELSE {[w EXCEPT !.hostmaskUsers = entries, !.users = u] :
                u \in {f \in [DOMAIN w.users \cup nicks -> Ignored..Owner] :
                        \A n \in DOMAIN f :
                            IF n \in nicks
                            THEN \E h \in DOMAIN entries : Split0(h) = n /\ f[n] = entries[h]
                            ELSE f[n] = w.users[n]}}

(***************************************************************************)
(*                   THE HANDLERS AND THE COMMAND ROUTER                   *)
(***************************************************************************)

\* A chat line: pad says that the text has surrounding white space, bang that
\* its first word starts with the prefix "!", words are its words (the first
\* one without the prefix).
Line(pad, bang, words) == [pad |-> pad, bang |-> bang, words |-> words]

NoLine == Line(FALSE, FALSE, <<>>)

\* The bot's current nickname and the channel it sits in.
BotNick == "MBot"

Channel == "#c"

\* The passphrase given at the first-run prompt.
VerificationPassphrase == Line(FALSE, FALSE, <<"pass">>)

\* strings.TrimSpace(message)
TrimSpace(message) == [message EXCEPT !.pad = FALSE]

\* strings.HasPrefix(message, "!")
IsCommandLine(message) == ~message.pad /\ message.bang

\* containsNick(c.CurrentNick(), message)
containsNick(nick, message) == \E i \in 1..Len(message.words) : message.words[i] = nick

\* m.Prefix.Name
PrefixName(hostmask) == Head(hostmask)

\* A message written to the connection.
Msg(cmd, to, text, a, b) == [cmd |-> cmd, to |-> to, text |-> text, a |-> a, b |-> b]

Send(w, cmd, to, text, a, b) == [w EXCEPT !.sent = Append(@, Msg(cmd, to, text, a, b))]

\* The static registry of built-in commands and their required levels.
BuiltinCommands == {"say", "op", "setlevel", "ignore", "unignore", "ratelimit"}

RequiredLevel(name) ==
    CASE name = "say" -> Regular
      [] name \in {"op", "ignore", "unignore", "ratelimit"} -> Admin
      [] OTHER -> Owner

\* config.IsCommandEnabledForChannel: cfg maps a channel to its lists.
RECURSIVE Contains(_, _)
Contains(list, x) ==
    IF list = <<>> THEN FALSE
    ELSE IF Head(list) = x THEN TRUE
    ELSE Contains(Tail(list), x)

NoChannelConfig == [enabled |-> <<>>, disabled |-> <<>>]

GetChannelConfig(cfg, channel) == Get(cfg, channel, NoChannelConfig)

IsCommandEnabledAllowFirst(cfg, channel, commandName) ==
    IF Len(GetChannelConfig(cfg, channel).enabled) > 0
    THEN Contains(GetChannelConfig(cfg, channel).enabled, commandName)
    ELSE ~Contains(GetChannelConfig(cfg, channel).disabled, commandName)

IsCommandEnabledAlways(cfg, channel, commandName) == TRUE

IsCommandEnabledForChannel(cfg, channel, commandName) ==
    IF Contains(GetChannelConfig(cfg, channel).disabled, commandName) THEN FALSE
    ELSE IF Len(GetChannelConfig(cfg, channel).enabled) > 0
         THEN Contains(GetChannelConfig(cfg, channel).enabled, commandName)
    ELSE TRUE

\* The switch of setLevelCmd over the level word.
ParseLevel(levelStr) ==
    CASE levelStr = "owner" -> Owner
      [] levelStr = "admin" -> Admin
      [] levelStr \in {"regular", "user", "normal"} -> Regular
      [] levelStr \in {"badboy", "bad"} -> BadBoy
      [] levelStr \in {"ignored", "ignore"} -> Ignored
      [] OTHER -> -1

\* The highest level among the hostmasks of the target, at least Regular.
CurrentLevel(all, target) ==
    LET ls == {all[h] : h \in {x \in DOMAIN all : HasPrefixBang(x, target)}} \cup {Regular}
    IN CHOOSE l \in ls : \A k \in ls : k <= l

\* SetUserLevelByHostmask on each hostmask of a set, all with the same level.
RECURSIVE SetEach(_, _, _)
SetEach(w, hostmasks, level) ==
    IF hostmasks = {} THEN w
    ELSE LET h == CHOOSE x \in hostmasks : TRUE
         IN SetEach(SetUserLevelByHostmask(w, h, level), hostmasks \ {h}, level)

\* commands.setLevelCmd
setLevelCmd(w, hostmask, replyTarget, args, save) ==
    IF Len(args) < 2
    THEN Send(Send(w, "PRIVMSG", replyTarget, "usage", "", ""),
              "PRIVMSG", replyTarget, "levels", "", "")
    ELSE LET target == SplitBang(args[1])
             level == ParseLevel(args[2])
             all == GetAllHostmasks(w)
             targetHostmasks == {h \in DOMAIN all : HasPrefixBang(h, target)}
             w1 == IF targetHostmasks = {}
                   THEN Send(SetUserLevel(SetUserLevelByHostmask(w, Join(target, <<"*@*">>), level),
                                          target, level),
                             "PRIVMSG", replyTarget, "no_hostmask", args[1], "")
                   ELSE SetUserLevel(SetEach(w, targetHostmasks, level), target, level)
             w2 == SaveHostmasks(w1, save)
         IN IF level = -1 THEN Send(w, "PRIVMSG", replyTarget, "unknown_level", args[2], "")
            ELSE IF ~HasPermission(w, hostmask, Owner)
            THEN Send(w, "PRIVMSG", replyTarget, "need_owner", "", "")
            ELSE IF SaveFailed(save) THEN Send(w2, "PRIVMSG", replyTarget, "save_error", "", "")
            ELSE Send(w2, "PRIVMSG", replyTarget, "level_changed",
                      LevelName(CurrentLevel(all, target)), LevelName(level))

\* commands.ignoreUserCmd and commands.unignoreUserCmd: setLevelCmd with the
\* level word filled in.
ignoreUserCmd(w, hostmask, replyTarget, args, save) ==
    IF Len(args) < 1 THEN Send(w, "PRIVMSG", replyTarget, "usage", "", "")
    ELSE setLevelCmd(w, hostmask, replyTarget, <<args[1], "ignored">>, save)

unignoreUserCmd(w, hostmask, replyTarget, args, save) ==
    IF Len(args) < 1 THEN Send(w, "PRIVMSG", replyTarget, "usage", "", "")
    ELSE setLevelCmd(w, hostmask, replyTarget, <<args[1], "regular">>, save)

\* strconv.Atoi of the value words used here; -1 stands for its error.
Atoi(word) ==
    CASE word = "0" -> 0
      [] word = "1" -> 1
      [] word = "2" -> 2
      [] OTHER -> -1

\* ResetUser on each hostmask of a set.
RECURSIVE ResetEach(_, _)
ResetEach(m, hostmasks) ==
    IF hostmasks = {} THEN m
    ELSE LET h == CHOOSE x \in hostmasks : TRUE
         IN ResetEach(ResetUser(m, h), hostmasks \ {h})

\* commands.rateLimitCmd
rateLimitCmd(w, hostmask, replyTarget, args) ==
    IF Len(args) < 1 THEN Send(w, "PRIVMSG", replyTarget, "usage", "", "")
    ELSE IF ~HasPermission(w, hostmask, Admin)
    THEN Send(w, "PRIVMSG", replyTarget, "need_admin", "", "")
    ELSE IF args[1] = "info" THEN Send(w, "PRIVMSG", replyTarget, "ratelimit_info", "", "")
    ELSE IF args[1] = "set"
    THEN IF Len(args) < 3 THEN Send(w, "PRIVMSG", replyTarget, "usage", "", "")
         ELSE IF Atoi(args[3]) = -1 THEN Send(w, "PRIVMSG", replyTarget, "invalid_value", args[3], "")
         ELSE IF args[2] \notin {"msg-window", "msg-max", "cmd-window", "cmd-max", "warning"}
         THEN Send(w, "PRIVMSG", replyTarget, "unknown_parameter", args[2], "")
         ELSE IF Atoi(args[3]) < 1 THEN Send(w, "PRIVMSG", replyTarget, "value_too_small", "", "")
         ELSE Send([w EXCEPT !.tracker = SetParam(@, args[2], Atoi(args[3]))],
                   "PRIVMSG", replyTarget, "ratelimit_set", args[2], args[3])
    ELSE IF args[1] = "reset"
    THEN IF Len(args) < 2 THEN Send(w, "PRIVMSG", replyTarget, "usage", "", "")
         ELSE LET all == GetAllHostmasks(w)
                  matching == {h \in DOMAIN all : HasPrefixBang(h, <<args[2]>>)}
              IN IF matching = {}
                 THEN Send(w, "PRIVMSG", replyTarget, "no_hostmasks", args[2], "")
                 ELSE Send([w EXCEPT !.tracker = ResetEach(@, matching)],
                           "PRIVMSG", replyTarget, "ratelimit_reset",
                           ToString(Cardinality(matching)), args[2])
    ELSE Send(w, "PRIVMSG", replyTarget, "unknown_subcommand", args[1], "")

\* cmd.Handler(c, m, args)
RunHandler(w, name, hostmask, replyTarget, args, save) ==
    LET w1 == [w EXCEPT !.ran = Append(@, [name |-> name, args |-> args])]
    IN CASE name = "setlevel" -> setLevelCmd(w1, hostmask, replyTarget, args, save)
         [] name = "ignore" -> ignoreUserCmd(w1, hostmask, replyTarget, args, save)
         [] name = "unignore" -> unignoreUserCmd(w1, hostmask, replyTarget, args, save)
         [] name = "ratelimit" -> rateLimitCmd(w1, hostmask, replyTarget, args)
         [] OTHER -> w1

\* knownLegacyCommands[plug.Name()]
KnownLegacyCommands(name) ==
    CASE name = "SamplePlugin" -> <<"test">>
      [] name = "EchoPlugin" -> <<"echo">>
      [] OTHER -> <<>>

\* plugin.HandlePluginCommand, the range over mgr.plugins taken in the given
\* order: the result and the plugin objects whose HandleCommand was called.
RECURSIVE HandlePluginCommandAll(_, _)
HandlePluginCommandAll(order, cmd) ==
    IF order = <<>> THEN [handled |-> FALSE, invoked |-> <<>>]
    ELSE LET plug == Head(order).plugin
             rest == HandlePluginCommandAll(Tail(order), cmd)
         IN IF plug.commandHandler /\ Contains(plug.commands, cmd)
            THEN [handled |-> TRUE, invoked |-> <<plug.obj>> \o rest.invoked]
            ELSE IF Contains(KnownLegacyCommands(plug.name), cmd)
            THEN [handled |-> TRUE, invoked |-> rest.invoked]
            ELSE rest

RECURSIVE HandlePluginCommand(_, _)
HandlePluginCommand(order, cmd) ==
    IF order = <<>> THEN [handled |-> FALSE, invoked |-> <<>>]
    ELSE LET plug == Head(order).plugin
         IN IF plug.commandHandler /\ Contains(plug.commands, cmd)
            THEN [handled |-> TRUE, invoked |-> <<plug.obj>>]
            ELSE IF Contains(KnownLegacyCommands(plug.name), cmd)
            THEN [handled |-> TRUE, invoked |-> <<>>]
            ELSE HandlePluginCommand(Tail(order), cmd)

\* CheckPluginCommands(c, m, baseCommand, args), which is plugin.HandlePluginCommand;
\* w.range is the order in which this call ranges over the registry.
CheckPluginCommands(w, name, args) ==
    LET r == HandlePluginCommand(w.range, name)
    IN [w EXCEPT !.offered = Append(@, [name |-> name, args |-> args]),
                 !.invoked = @ \o [i \in 1..Len(r.invoked) |->
                                      [obj |-> r.invoked[i], name |-> name, args |-> args]],
                 !.handled = IF r.handled THEN "true" ELSE "false"]

\* The isSpamming branch of a handler was taken; reached is what AddWarning returned.
Spam(w, check, reached) ==
    [w EXCEPT !.spam = Append(@, [check |-> check, reached |-> reached])]

\* userLevel == userlevels.Ignored, the test that opens both handlers and the router
ShortCircuitsNever(userLevel) == FALSE

ShortCircuits(userLevel) == userLevel = Ignored

\* The part of HandleCommand after the rate check.
Dispatch(w, cfg, hostmask, replyTarget, userLevel, name, args, save) ==
    IF name \notin BuiltinCommands THEN CheckPluginCommands(w, name, args)
    ELSE IF ~IsCommandEnabledForChannel(cfg, replyTarget, name) THEN w
    ELSE IF ~HasPermission(w, hostmask, RequiredLevel(name))
    THEN IF RequiredLevel(name) = Owner
         THEN Send(w, "PRIVMSG", replyTarget, "denied_owner", "", "")
         ELSE Send(w, "PRIVMSG", replyTarget, "denied",
                   LevelName(RequiredLevel(name)), LevelName(userLevel))
    ELSE RunHandler(w, name, hostmask, replyTarget, args, save)

\* commands.HandleCommand for a line of a channel, at time t.
HandleCommand(w, cfg, hostmask, replyTarget, message, t, save) ==
    LET name == Head(message.words)
        args == Tail(message.words)
        userLevel == GetUserLevelByHostmask(w, hostmask)
        r == TrackCommand(w.tracker, hostmask, name, t)
        a == AddWarning(r.m, hostmask)
    IN IF message.words = <<>> THEN w
       ELSE IF ShortCircuits(userLevel) THEN w
       ELSE IF ~r.exceeded
       THEN Dispatch([w EXCEPT !.tracker = r.m], cfg, hostmask, replyTarget, userLevel, name, args, save)
       ELSE IF a.reached
       THEN Send(Send(SaveHostmasks(SetUserLevel(Spam([w EXCEPT !.tracker = a.m], "command", TRUE),
                                                 hostmask, Ignored), save),
                      "NOTICE", PrefixName(hostmask), "command_auto_ignored", "", ""),
                 "PRIVMSG", replyTarget, "command_auto_ignored", PrefixName(hostmask), "")
       ELSE Dispatch(Send(Spam([w EXCEPT !.tracker = a.m], "command", FALSE),
                          "NOTICE", PrefixName(hostmask), "command_warning",
                          ToString(GetWarningCount(a.m, hostmask)), ToString(a.m.warningThreshold)),
                     cfg, hostmask, replyTarget, userLevel, name, args, save)

\* The switch of HandleChannelMessage.
RouteChannelMessage(w, cfg, hostmask, channel, message, t, save) ==
    IF containsNick(BotNick, message) THEN [w EXCEPT !.ai = TRUE]
    ELSE IF IsCommandLine(message) THEN HandleCommand(w, cfg, hostmask, channel, message, t, save)
    ELSE w

\* handlers.HandleChannelMessage at time t.
HandleChannelMessage(w, cfg, hostmask, channel, message, t, save) ==
    LET r == TrackMessage(w.tracker, hostmask, t)
        a == AddWarning(r.m, hostmask)
    IN IF ShortCircuits(GetUserLevelByHostmask(w, hostmask)) THEN w
       ELSE IF ~r.exceeded
       THEN RouteChannelMessage([w EXCEPT !.tracker = r.m], cfg, hostmask, channel, message, t, save)
       ELSE IF a.reached
       THEN Send(SaveHostmasks(SetUserLevel(Spam([w EXCEPT !.tracker = a.m], "message", TRUE),
                                            hostmask, Ignored), save),
                 "PRIVMSG", channel, "auto_ignored", PrefixName(hostmask), "")
       ELSE RouteChannelMessage(Send(Spam([w EXCEPT !.tracker = a.m], "message", FALSE),
                                     "NOTICE", PrefixName(hostmask),
                                     "warning", ToString(GetWarningCount(a.m, hostmask)), ToString(a.m.warningThreshold)),
                                cfg, hostmask, channel, message, t, save)

\* handlers.checkPendingVerification (exact when at most one key equals the
\* nickname up to case, which the nicknames of the model ensure)
checkPendingVerification(pendings, userNick) ==
    IF Has(pendings, userNick) THEN pendings[userNick]
    ELSE \E pendingNick \in DOMAIN pendings :
            EqualFold(userNick, pendingNick) /\ pendings[pendingNick]

\* handlers.SetPendingVerification
SetPendingVerification(w, userNick, isPending) ==
    [w EXCEPT !.pending = Put(@, userNick, isPending)]

\* handlers.checkIfOwner
checkIfOwner(w, hostmask) ==
    /\ OwnerOnRecord(LoadSettings(w.settings))
    /\ hostmask = LoadSettings(w.settings).s.ownerHostmask

\* passphrase == VerificationPassphrase, with passphrase := strings.TrimSpace(message)
PassphraseMatchesAny(message) == TRUE

PassphraseMatches(message) == TrimSpace(message) = VerificationPassphrase

\* What security.GenerateHash can do: return the hash, or fail to read random bytes.
HashOutcomes == {"ok", "error"}

\* handlers.handleOwnerVerification
handleOwnerVerification(w, hostmask, message, hash, save) ==
    LET ownerNick == PrefixName(hostmask)
        s == [ownerVerified |-> TRUE,
              ownerPasshash |-> GenerateHash(TrimSpace(message)),
              ownerHostmask |-> hostmask,
              hostmaskLevels |-> TRUE,
              hostmasks |-> Put(EmptyMap, hostmask, Owner)]
        w1 == [w EXCEPT !.settings = SaveSettings(@, s, save)]
    IN IF ~PassphraseMatches(message)
       THEN Send(w, "PRIVMSG", ownerNick, "verification_failed", "", "")
       ELSE IF hash = "error"
       THEN Send(w, "PRIVMSG", ownerNick, "internal_error", "", "")
       ELSE IF SaveFailed(save)
       THEN Send(w1, "PRIVMSG", ownerNick, "save_error", "", "")
       ELSE Send(SetPendingVerification(SetUserLevelByHostmask(w1, hostmask, Owner), ownerNick, FALSE),
                 "PRIVMSG", ownerNick, "verification_successful", "", "")

\* The switch of handleSetLevelCommand over the level word.
ParsePrivateLevel(levelStr) ==
    CASE levelStr = "owner" -> Owner
      [] levelStr = "admin" -> Admin
      [] levelStr = "regular" -> Regular
      [] levelStr = "badboy" -> BadBoy
      [] OTHER -> -1

\* handlers.handleSetLevelCommand
handleSetLevelCommand(w, hostmask, message, save) ==
    LET userNick == PrefixName(hostmask)
        level == ParsePrivateLevel(message.words[3])
        w1 == SaveHostmasks(SetUserLevelByHostmask(w, SplitBang(message.words[2]), level), save)
    IN IF Len(message.words) # 3 THEN Send(w, "PRIVMSG", userNick, "invalid_format", "", "")
       ELSE IF level = -1 THEN Send(w, "PRIVMSG", userNick, "invalid_level", "", "")
       ELSE IF SaveFailed(save) THEN Send(w1, "PRIVMSG", userNick, "save_error", "", "")
       ELSE Send(w1, "PRIVMSG", userNick, "level_set", message.words[3], "")

\* The switch of HandlePrivateMessage.
RoutePrivateMessage(w, hostmask, message, hash, save) ==
    LET userNick == PrefixName(hostmask)
        isPending == checkPendingVerification(w.pending, userNick)
        isOwner == checkIfOwner(w, hostmask)
        isSetLevelCmd == IsCommandLine(message) /\ Len(message.words) >= 2
                            /\ Head(message.words) = "setlevel"
        isCommand == IsCommandLine(message)
    IN IF isPending THEN handleOwnerVerification(w, hostmask, message, hash, save)
       ELSE IF isOwner /\ isSetLevelCmd THEN handleSetLevelCommand(w, hostmask, message, save)
       ELSE IF isCommand /\ ~isOwner
       THEN Send(w, "PRIVMSG", userNick, "not_authorized", "", "")
       ELSE IF TrimSpace(message) = NoLine THEN w
       ELSE Send(w, "PRIVMSG", userNick, "default_response", "", "")

\* handlers.HandlePrivateMessage at time t.
HandlePrivateMessage(w, hostmask, message, t, hash, save) ==
    LET r == TrackMessage(w.tracker, hostmask, t)
        a == AddWarning(r.m, hostmask)
    IN IF ShortCircuits(GetUserLevelByHostmask(w, hostmask)) THEN w
       ELSE IF ~r.exceeded
       THEN RoutePrivateMessage([w EXCEPT !.tracker = r.m], hostmask, message, hash, save)
       ELSE IF a.reached
       THEN Send(SaveHostmasks(SetUserLevel(Spam([w EXCEPT !.tracker = a.m], "message", TRUE),
                                            hostmask, Ignored), save),
                 "NOTICE", PrefixName(hostmask), "auto_ignored", "", "")
       ELSE RoutePrivateMessage(Send(Spam([w EXCEPT !.tracker = a.m], "message", FALSE),
                                     "NOTICE", PrefixName(hostmask),
                                     "warning", ToString(GetWarningCount(a.m, hostmask)),
                                     ToString(a.m.warningThreshold)),
                                hostmask, message, hash, save)

(***************************************************************************)
(*                     THE FAN-OUT TO THE PLUGINS                          *)
(***************************************************************************)

\* The type assertion plug.(plugin.XHandler) of dispatchToPlugins.
ImplementsAny(plug, method) == TRUE

Implements(plug, method) == method \in plug.handlers

\* The switch of dispatchToPlugins: the handler method of a command other than
\* PRIVMSG, or "none".
HandlerOf(command) ==
    CASE command = "KICK"   -> "OnKick"
      [] command = "JOIN"   -> "OnJoin"
      [] command = "PART"   -> "OnPart"
      [] command = "QUIT"   -> "OnQuit"
      [] command = "NICK"   -> "OnNickChange"
      [] command = "INVITE" -> "OnInvite"
      [] command \in {"TOPIC", "332", "333"} -> "OnTopicChange"
      [] command = "NOTICE" -> "OnNotice"
      [] command = "ERROR"  -> "OnError"
      [] command = "MODE"   -> "OnMode"
      [] OTHER              -> "none"

PluginCall(plug, method) == [obj |-> plug.obj, method |-> method]

\* One turn of the loop of dispatchToPlugins: the calls made on one plugin.
\* mention is containsNick(c.CurrentNick(), m.Trailing()).
DispatchOne(plug, command, mention) ==
    <<PluginCall(plug, "OnMessage")>> \o
    (IF command = "PRIVMSG"
     THEN (IF Implements(plug, "OnPrivMsg") THEN <<PluginCall(plug, "OnPrivMsg")>> ELSE <<>>) \o
          (IF mention /\ Implements(plug, "OnNickMention")
           THEN <<PluginCall(plug, "OnNickMention")>> ELSE <<>>)
     ELSE IF HandlerOf(command) # "none" /\ Implements(plug, HandlerOf(command))
     THEN <<PluginCall(plug, HandlerOf(command))>>
     ELSE <<>>)

\* dispatchToPlugins over the slice GetPluginList returned.
RECURSIVE dispatchToPlugins(_, _, _)
dispatchToPlugins(list, command, mention) ==
    IF list = <<>> THEN <<>>
    ELSE DispatchOne(Head(list), command, mention) \o dispatchToPlugins(Tail(list), command, mention)

(***************************************************************************)
(*                        THE CHAT LINES RECEIVED                          *)
(***************************************************************************)

\* The state the handlers work on, before a line is handled.
World ==
    [users |-> users, hostmaskUsers |-> hostmaskUsers, settings |-> settings,
     tracker |-> tracker, pending |-> pending,
     sent |-> <<>>, ran |-> <<>>, offered |-> <<>>, ai |-> FALSE,
     range |-> <<>>, invoked |-> <<>>, handled |-> "none", spam |-> <<>>]

NoEvent ==
    [kind |-> "none", command |-> "none", hostmask |-> <<>>, message |-> NoLine, level |-> Regular,
     sent |-> <<>>, ran |-> <<>>, offered |-> <<>>, ai |-> FALSE, fanout |-> <<>>,
     invoked |-> <<>>, handled |-> "none", spam |-> <<>>]

\* The state after the line is handled, and the record of what handling it did.
\* HandleMessages ends with dispatchToPlugins, whatever the handler did; list
\* is the slice its call of GetPluginList returns.
Handled(w, list, kind, hostmask, message) ==
    /\ users' = w.users
    /\ hostmaskUsers' = w.hostmaskUsers
    /\ settings' = w.settings
    /\ tracker' = w.tracker
    /\ pending' = w.pending
    /\ ev' = [kind |-> kind, command |-> "PRIVMSG", hostmask |-> hostmask, message |-> message,
              level |-> GetUserLevelByHostmask(World, hostmask),
              sent |-> w.sent, ran |-> w.ran, offered |-> w.offered, ai |-> w.ai,
              fanout |-> dispatchToPlugins(list, "PRIVMSG", containsNick(BotNick, message)),
              invoked |-> w.invoked, handled |-> w.handled, spam |-> w.spam]

\* The plugin values of a slice of registry entries.
PluginsOf(order) == [i \in 1..Len(order) |-> order[i].plugin]

\* The senders, and one more hostmask with the owner's nickname.
Senders == {<<"al", "u@h1">>, <<"bo", "u@h3">>}

Hostmasks == Senders \cup {<<"al", "u@h2">>}

ChannelLines ==
    {Line(FALSE, TRUE, <<"op", "bo">>), Line(FALSE, TRUE, <<"op", "MBot">>),
     Line(FALSE, TRUE, <<"setlevel", "bo", "admin">>),
     Line(FALSE, TRUE, <<"setlevel", "bo", "ignored">>),
     Line(FALSE, TRUE, <<"zap">>), Line(FALSE, FALSE, <<"hello">>)}

PrivateLines ==
    {Line(FALSE, FALSE, <<"pass">>), Line(FALSE, FALSE, <<"nope">>),
     Line(FALSE, TRUE, <<"help">>),
     Line(FALSE, TRUE, <<"setlevel", "bo!u@h3", "admin">>)}

\* The replies to the verification request.
VerifyLines ==
    {Line(FALSE, FALSE, <<"pass">>), Line(TRUE, FALSE, <<"pass">>),
     Line(FALSE, FALSE, <<"nope">>)}

\* The lines sent to a channel with a policy.
PolicyLines == {Line(FALSE, TRUE, <<"say", "hi">>), Line(FALSE, TRUE, <<"op", "bo">>)}

\* A PRIVMSG to the channel arrives, one second after the previous line.
ChannelMessage(hostmask, message, save) ==
    /\ now < MaxChatTime
    /\ now' = now + 1
    /\ \E order \in Orders(plugins), list \in Orders(plugins) :
          Handled(HandleChannelMessage([World EXCEPT !.range = order], channelSettings, hostmask,
                                       Channel, message, now + 1, save),
                  PluginsOf(list), "channel", hostmask, message)
    /\ UNCHANGED <<channelSettings, trackHist>>

\* A PRIVMSG to the bot arrives.
PrivateMessage(hostmask, message, hash, save) ==
    /\ now < MaxChatTime
    /\ hash = "ok" \/ PassphraseMatches(message)
    /\ now' = now + 1
    /\ \E list \in Orders(plugins) :
          Handled(HandlePrivateMessage(World, hostmask, message, now + 1, hash, save),
                  PluginsOf(list), "private", hostmask, message)
    /\ UNCHANGED <<channelSettings, trackHist>>

\* An event other than a PRIVMSG arrives: the switch of HandleMessages logs it
\* (a PING is answered), then dispatchToPlugins runs.
ProtocolEvent(command) ==
    /\ now < MaxChatTime
    /\ now' = now + 1
    /\ \E list \in Orders(plugins) :
          ev' = [NoEvent EXCEPT !.kind = "event", !.command = command,
                                !.fanout = dispatchToPlugins(PluginsOf(list), command, FALSE)]
    /\ UNCHANGED <<users, hostmaskUsers, settings, tracker, pending, channelSettings, trackHist>>

\* The connection is lost and main's loop connects again: isFirstRun still
\* holds, so ten seconds later SendOwnerVerificationRequest(client,
\* initialOwnerNick) runs again and marks the nickname pending.
Reconnect(initialOwnerNick) ==
    /\ now < MaxChatTime
    /\ now' = now + 1
    /\ pending' = SetPendingVerification(World, initialOwnerNick, TRUE).pending
    /\ ev' = NoEvent
    /\ UNCHANGED <<users, hostmaskUsers, settings, tracker, channelSettings, trackHist>>

\* The goroutine of scheduleOwnerVerification wakes up and begins the map
\* assignment of SetPendingVerification; it takes no lock.
TaskWriteBegin ==
    /\ task.pc = "sleeping"
    /\ task' = [task EXCEPT !.pc = "writing"]
    /\ UNCHANGED <<cvars, rvars>>

\* The assignment PendingVerifications[ownerNick] = true is done.
TaskWriteEnd(initialOwnerNick) ==
    /\ task.pc = "writing"
    /\ task' = [task EXCEPT !.pc = "done"]
    /\ pending' = SetPendingVerification(World, initialOwnerNick, TRUE).pending
    /\ UNCHANGED <<users, hostmaskUsers, settings, channelSettings, ev, rvars>>

\* The read loop, handling a private message, begins the map read of
\* checkPendingVerification; it takes no lock.
LoopReadBegin ==
    /\ task.pc # "fatal"
    /\ ~task.reading
    /\ now < MaxChatTime
    /\ task' = [task EXCEPT !.reading = TRUE]
    /\ UNCHANGED <<cvars, rvars>>

\* The read is done and the rest of HandlePrivateMessage runs.
LoopReadEnd(hostmask, message, hash, save) ==
    /\ task.pc # "fatal"
    /\ task.reading
    /\ task' = [task EXCEPT !.reading = FALSE]
    /\ PrivateMessage(hostmask, message, hash, save)

\* The map is read while it is written: the read returns the old or the new
\* entry (the two orders above), or the Go runtime stops the process with
\* "fatal error: concurrent map read and map write".
RaceFault ==
    /\ task.pc = "writing"
    /\ task.reading
    /\ task' = [task EXCEPT !.pc = "fatal"]
    /\ UNCHANGED <<cvars, rvars>>

\* No chat variable is in use.
ChatIdle ==
    /\ users = EmptyMap
    /\ hostmaskUsers = EmptyMap
    /\ settings = AbsentFile
    /\ pending = EmptyMap
    /\ channelSettings = EmptyMap
    /\ ev = NoEvent

\* The maps after setup.SetupOwnerVerification with the given owner nickname.
SetupOwnerVerification(ownerNick) ==
    SetUserLevel([users |-> EmptyMap, hostmaskUsers |-> EmptyMap], <<ownerNick>>, Owner)

\* A first run just connected: the goroutine that sends the verification
\* request sleeps, and no nickname is pending yet.
FirstRunConnected(ownerNick) ==
    /\ users = SetupOwnerVerification(ownerNick).users
    /\ hostmaskUsers = SetupOwnerVerification(ownerNick).hostmaskUsers
    /\ pending = EmptyMap
    /\ settings = AbsentFile
    /\ tracker = NewMessageTracker
    /\ now = 0
    /\ trackHist = NoHist
    /\ channelSettings = EmptyMap
    /\ ev = NoEvent

\* The tracker after "!ratelimit set msg-max 1", "cmd-max 1" and "warning 2".
StrictTracker ==
    [NewMessageTracker EXCEPT !.maxMessagesPerWindow = 1, !.maxCommandsPerWindow = 1,
                              !.warningThreshold = 2]

\* A first run: no settings file, the owner nickname typed at the prompt, the
\* verification request sent.
FirstRun(ownerNick) ==
    /\ users = SetupOwnerVerification(ownerNick).users
    /\ hostmaskUsers = SetupOwnerVerification(ownerNick).hostmaskUsers
    /\ pending = Put(EmptyMap, ownerNick, TRUE)
    /\ settings = AbsentFile
    /\ tracker = StrictTracker
    /\ now = 0
    /\ trackHist = NoHist
    /\ channelSettings = EmptyMap
    /\ ev = NoEvent

\* The settings file a completed verification of al!u@h1 has written.
VerifiedFile ==
    [file |-> "ok",
     data |-> [ownerVerified |-> TRUE,
               ownerPasshash |-> GenerateHash(VerificationPassphrase),
               ownerHostmask |-> <<"al", "u@h1">>,
               hostmaskLevels |-> TRUE,
               hostmasks |-> Put(EmptyMap, <<"al", "u@h1">>, Owner)]]

\* The lists a channel policy is made of.
PolicyLists == {<<>>, <<"say">>, <<"op">>, <<"say", "op">>, <<"op", "say">>}

\* A later run: the owner is verified, LoadHostmasks has read the settings, and
\* the channel has a policy.
LaterRun ==
    /\ \E w \in LoadHostmasks([users |-> EmptyMap, hostmaskUsers |-> EmptyMap,
                                settings |-> VerifiedFile]) :
          users = w.users /\ hostmaskUsers = w.hostmaskUsers
    /\ settings = VerifiedFile
    /\ pending = EmptyMap
    /\ tracker = StrictTracker
    /\ now = 0
    /\ trackHist = NoHist
    /\ \E enabled \in PolicyLists, disabled \in PolicyLists :
          channelSettings = Put(EmptyMap, Channel, [enabled |-> enabled, disabled |-> disabled])
    /\ ev = NoEvent

\* A settings file that names the verified owner and lists no hostmask levels
\* (hostmask_levels is false): one written by hand or left by an older build.
OwnerOnlyFile ==
    [file |-> "ok",
     data |-> [ZeroSettings EXCEPT !.ownerVerified = TRUE,
                                   !.ownerPasshash = GenerateHash(VerificationPassphrase),
                                   !.ownerHostmask = <<"al", "u@h1">>]]

\* The settings file after the owner has set bo!u@h3 to Ignored.
IgnoredFile ==
    [VerifiedFile EXCEPT !.data.hostmasks = Put(@, <<"bo", "u@h3">>, Ignored)]

\* The settings files a run can start with.
StartFiles == {AbsentFile, VerifiedFile, OwnerOnlyFile}

\* The start of a run: LoadHostmasks (SetupClient) has read the settings file.
Started(f) ==
    /\ \E w \in LoadHostmasks([users |-> EmptyMap, hostmaskUsers |-> EmptyMap, settings |-> f]) :
          users = w.users /\ hostmaskUsers = w.hostmaskUsers
    /\ settings = f
    /\ pending = EmptyMap
    /\ tracker = NewMessageTracker
    /\ now = 0
    /\ trackHist = NoHist
    /\ channelSettings = EmptyMap
    /\ ev = NoEvent

\* The nicknames and hostmasks whose level is set.
LevelNicks == {<<"al">>}

LevelHostmasks == {<<"al", "u@h1">>, <<"al", "u@h2">>}

\* A call of userlevels.SetUserLevel(nick, level).
DoSetUserLevel(nick, level) ==
    /\ users' = SetUserLevel(World, nick, level).users
    /\ hostmaskUsers' = SetUserLevel(World, nick, level).hostmaskUsers
    /\ UNCHANGED <<settings, pending, channelSettings, ev, rvars>>

\* A call of userlevels.SetUserLevelByHostmask(hostmask, level).
DoSetUserLevelByHostmask(hostmask, level) ==
    /\ users' = SetUserLevelByHostmask(World, hostmask, level).users
    /\ hostmaskUsers' = SetUserLevelByHostmask(World, hostmask, level).hostmaskUsers
    /\ UNCHANGED <<settings, pending, channelSettings, ev, rvars>>

ResolveNext ==
    \/ \E n \in LevelNicks, l \in Ignored..Owner : DoSetUserLevel(n, l)
    \/ \E h \in LevelHostmasks, l \in Ignored..Owner : DoSetUserLevelByHostmask(h, l)

\* The registry entry of a plugin loaded from path at time t.
LoadedInfo(path, t) ==
    [name |-> PluginOf(path).name, plugin |-> PluginOf(path), version |-> PluginOf(path).version,
     loadTimestamp |-> t, filePath |-> path]

\* The registries that the startup scan and later load and unload commands
\* leave: at most one version of each plugin.
LoadedRegistries ==
    {paths \in SUBSET {"alpha_v1.so", "alpha_v2.so", "beta_v1.so", "beta_v2.so"} :
        \A p, q \in paths : PluginOf(p).name = PluginOf(q).name => p = q}

RegistryLoaded(paths) ==
    /\ plugins = {LoadedInfo(path, 0) : path \in paths}
    /\ pluginPaths = {[name |-> PluginOf(path).name, path |-> path] : path \in paths}
    /\ call = [t \in Callers |-> IdleCall]
    /\ pnow = 0

\* The lists of the channel's policy, and the command lines sent to the channel.
CommandPolicyLists == {<<>>, <<"echo">>, <<"say">>}

CommandLines ==
    {Line(FALSE, TRUE, <<"echo", "hi">>), Line(FALSE, TRUE, <<"zap">>),
     Line(FALSE, TRUE, <<"say", "hi">>)}

\* A run with plugins loaded, the default rate limits and a channel policy.
CommandsRun ==
    /\ \E w \in LoadHostmasks([users |-> EmptyMap, hostmaskUsers |-> EmptyMap,
                                settings |-> VerifiedFile]) :
          users = w.users /\ hostmaskUsers = w.hostmaskUsers
    /\ settings = VerifiedFile
    /\ pending = EmptyMap
    /\ tracker = NewMessageTracker
    /\ now = 0
    /\ trackHist = NoHist
    /\ \E enabled \in CommandPolicyLists, disabled \in CommandPolicyLists :
          channelSettings = Put(EmptyMap, Channel, [enabled |-> enabled, disabled |-> disabled])
    /\ ev = NoEvent

CommandsNext ==
    \E h \in Senders, m \in CommandLines, save \in SaveOutcomes : ChannelMessage(h, m, save)

\* The commands of the events fanned out, the chat lines among them (one names
\* the bot), and a run with plugins loaded and an Ignored sender.
ProtocolCommands ==
    {"PING", "KICK", "JOIN", "PART", "QUIT", "NICK", "INVITE", "TOPIC", "332", "333", "NOTICE",
     "ERROR", "MODE"}

FanoutLines ==
    {Line(FALSE, FALSE, <<"hello">>), Line(FALSE, FALSE, <<"MBot", "hello">>),
     Line(FALSE, TRUE, <<"echo", "hi">>)}

FanoutRun ==
    /\ \E w \in LoadHostmasks([users |-> EmptyMap, hostmaskUsers |-> EmptyMap,
                                settings |-> IgnoredFile]) :
          users = w.users /\ hostmaskUsers = w.hostmaskUsers
    /\ settings = IgnoredFile
    /\ pending = EmptyMap
    /\ tracker = NewMessageTracker
    /\ now = 0
    /\ trackHist = NoHist
    /\ channelSettings = EmptyMap
    /\ ev = NoEvent

FanoutNext ==
    \/ \E h \in Senders, m \in FanoutLines, save \in SaveOutcomes : ChannelMessage(h, m, save)
    \/ \E h \in Senders, m \in FanoutLines, hash \in HashOutcomes, save \in SaveOutcomes :
          PrivateMessage(h, m, hash, save)
    \/ \E command \in ProtocolCommands : ProtocolEvent(command)

ChatNext ==
    \/ \E h \in Senders, m \in ChannelLines, save \in SaveOutcomes : ChannelMessage(h, m, save)
    \/ \E h \in Senders, m \in PrivateLines, hash \in HashOutcomes, save \in SaveOutcomes :
          PrivateMessage(h, m, hash, save)

VerifyNext ==
    \E h \in Senders, m \in VerifyLines, hash \in HashOutcomes, save \in SaveOutcomes :
        PrivateMessage(h, m, hash, save)

PolicyNext ==
    \E h \in Senders, m \in PolicyLines, save \in SaveOutcomes : ChannelMessage(h, m, save)

\* The first seconds of a first run: private messages arrive while the
\* verification request is due.
RaceNext ==
    \/ TaskWriteBegin
    \/ TaskWriteEnd("al")
    \/ LoopReadBegin
    \/ \E h \in Senders, m \in VerifyLines, hash \in HashOutcomes, save \in SaveOutcomes :
          LoopReadEnd(h, m, hash, save)
    \/ RaceFault

\* A first run with the owner nickname "al": private messages from every
\* hostmask, and reconnects.
ReconnectNext ==
    \/ \E h \in Hostmasks, m \in VerifyLines, hash \in HashOutcomes, save \in SaveOutcomes :
          PrivateMessage(h, m, hash, save)
    \/ Reconnect("al")

(***************************************************************************)
(*                    THE READ LOOP AND THE FAN-OUT                        *)
(***************************************************************************)

\* The loop before the first event is read.
LoopStart ==
    [pc |-> "idle", received |-> <<>>, todo |-> <<>>, targets |-> <<>>, log |-> <<>>]

\* No verification request is scheduled.
NoTask == [pc |-> "none", reading |-> FALSE]

LoopIdle == loop = LoopStart /\ task = NoTask

\* The commands of the events read: a server PING, and a PRIVMSG, whose
\* handling can run one of the plugin commands.
EventCommands == {"PING", "PRIVMSG"}

\* The artifacts that the load commands pass to LoadPlugin.
LoadCommandPaths == {"alpha_v1.so", "alpha_v2.so", "broken.so"}

\* The number of the event being handled.
Current == Len(loop.received)

\* plugin.GetPluginObjects: the slices it can return, the plugin objects of the
\* registry in the order of a map range.
GetPluginObjectsButOne(m) ==
    {Tail([i \in 1..Len(o) |-> o[i].plugin.obj]) : o \in Orders(m) \ {<<>>}} \cup
    (IF m = {} THEN {<<>>} ELSE {})

GetPluginObjects(m) ==
    {[i \in 1..Len(o) |-> o[i].plugin.obj] : o \in Orders(m)}

\* The client reads the next message of the connection and calls the handler,
\* HandleMessages; the previous call has returned.
LoopReceive(command) ==
    /\ loop.pc = "idle"
    /\ Len(loop.received) < MaxEvents
    /\ loop' = [loop EXCEPT !.pc = "handle", !.received = Append(@, command)]
    /\ UNCHANGED pvars

\* The switch of HandleMessages returns without a call of the registry.
LoopHandle ==
    /\ loop.pc = "handle"
    /\ loop' = [loop EXCEPT !.pc = "handled"]
    /\ UNCHANGED pvars

\* The switch of HandleMessages runs a command that calls LoadPlugin (no plugin
\* has the file name of one of LoadCommandPaths as its name).
LoopHandleLoad(path) ==
    /\ loop.pc = "handle"
    /\ loop.received[Current] = "PRIVMSG"
    /\ pnow < MaxLoopCalls
    /\ CallLoad("loop", path)
    /\ loop' = [loop EXCEPT !.pc = "call"]

\* ... that calls UnloadPlugin.
LoopHandleUnload(name) ==
    /\ loop.pc = "handle"
    /\ loop.received[Current] = "PRIVMSG"
    /\ pnow < MaxLoopCalls
    /\ CallUnload("loop", name)
    /\ loop' = [loop EXCEPT !.pc = "handled"]

\* ... that calls ReloadPluginsFromDir.
LoopHandleReload ==
    /\ loop.pc = "handle"
    /\ loop.received[Current] = "PRIVMSG"
    /\ pnow < MaxLoopCalls
    /\ CallReload("loop")
    /\ loop' = [loop EXCEPT !.pc = "call"]

\* The registry call of the command goes on.
LoopCallStep ==
    /\ loop.pc = "call"
    /\ \/ StepOpen("loop")
       \/ StepCheck("loop")
       \/ StepOnLoad("loop")
       \/ StepInstall("loop")
       \/ StepReadDir("loop")
       \/ StepScanNext("loop")
    /\ UNCHANGED loop

\* dispatchToPlugins: the call of GetPluginList, once the switch has returned
\* and the frame of the command it ran is gone. loop.targets keeps, per event,
\* the objects registered at that moment.
LoopDispatch ==
    /\ \/ loop.pc = "handled"
       \/ loop.pc = "call" /\ call["loop"].pc = "idle"
    /\ \E list \in GetPluginObjects(plugins) :
          loop' = [loop EXCEPT !.pc = IF list = <<>> THEN "idle" ELSE "fanout",
                               !.todo = list,
                               !.targets = Append(@, {e.plugin.obj : e \in plugins})]
    /\ call' = [call EXCEPT !["loop"] = IdleCall]
    /\ UNCHANGED <<plugins, pluginPaths, pnow>>

\* dispatchToPlugins: one turn of its loop, plug.OnMessage(c, m); after the
\* last one HandleMessages returns.
LoopDeliver ==
    /\ loop.pc = "fanout"
    /\ loop' = [loop EXCEPT !.pc = IF Tail(loop.todo) = <<>> THEN "idle" ELSE "fanout",
                            !.todo = Tail(@),
                            !.log = Append(@, [event |-> Current, obj |-> Head(loop.todo)])]
    /\ UNCHANGED pvars

\* The loop whose commands are loads only.
LoopLoadNext ==
    \/ \E command \in EventCommands : LoopReceive(command)
    \/ LoopHandle
    \/ \E path \in LoadCommandPaths : LoopHandleLoad(path)
    \/ LoopCallStep
    \/ LoopDispatch
    \/ LoopDeliver

\* The steps that the bot's own code takes and that therefore happen: all of
\* the loop but the return of a module's load hook, which is the module's.
LoopProgress ==
    \/ \E command \in EventCommands : LoopReceive(command)
    \/ LoopHandle
    \/ /\ loop.pc = "call"
       /\ StepOpen("loop") \/ StepCheck("loop") \/ StepInstall("loop")
       /\ UNCHANGED loop
    \/ LoopDispatch
    \/ LoopDeliver

\* The registry a run starts with, as the startup scan can leave it.
StartRegistries == {{"alpha_v1.so", "beta_v1.so"}}

LoopInit ==
    /\ \E paths \in StartRegistries : RegistryLoaded(paths)
    /\ RateIdle
    /\ ChatIdle
    /\ LoopIdle

LoopNext ==
    \/ \E command \in EventCommands : LoopReceive(command)
    \/ LoopHandle
    \/ \E path \in LoadCommandPaths : LoopHandleLoad(path)
    \/ \E name \in PluginNames : LoopHandleUnload(name)
    \/ LoopHandleReload
    \/ LoopCallStep
    \/ LoopDispatch
    \/ LoopDeliver

(***************************************************************************)
(*                          THE SPECIFICATIONS                             *)
(***************************************************************************)

Init == PluginInit /\ RateIdle /\ ChatIdle /\ LoopIdle

\* The registry, called from the handler loop.
SpecPlugin == Init /\ [][PluginNext /\ UNCHANGED <<rvars, cvars, lvars>>]_vars

\* The rate limiter, called directly.
InitRate == PluginInit /\ RateInit /\ ChatIdle /\ LoopIdle

SpecRate == InitRate /\ [][RateNext /\ UNCHANGED <<pvars, cvars, lvars>>]_vars

\* The tracker with its defaults, its settings changed and its identities reset
\* at run time.
SpecTracker == Init /\ [][TrackerNext /\ UNCHANGED <<pvars, cvars, lvars>>]_vars

\* The handlers, fed the chat lines of a first run.
InitChat == PluginInit /\ FirstRun("al") /\ LoopIdle

SpecChat == InitChat /\ [][ChatNext /\ UNCHANGED <<pvars, lvars>>]_vars

\* The owner verification, with the owner nickname typed in either case.
InitVerify == PluginInit /\ LoopIdle /\ \E ownerNick \in {"al", "AL"} : FirstRun(ownerNick)

SpecVerify == InitVerify /\ [][VerifyNext /\ UNCHANGED <<pvars, lvars>>]_vars

\* The owner verification of a process that loses its connection.
SpecReconnect == InitChat /\ [][ReconnectNext /\ UNCHANGED <<pvars, lvars>>]_vars

\* The verification request task beside the read loop.
InitRace ==
    /\ PluginInit
    /\ FirstRunConnected("al")
    /\ loop = LoopStart
    /\ task = [pc |-> "sleeping", reading |-> FALSE]

SpecRace == InitRace /\ [][RaceNext /\ UNCHANGED <<pvars, loop>>]_vars

\* The level resolver, its maps set by direct calls.
InitResolve == PluginInit /\ LoopIdle /\ \E f \in StartFiles : Started(f)

SpecResolve == InitResolve /\ [][ResolveNext /\ UNCHANGED <<pvars, lvars>>]_vars

\* The command router with plugins loaded.
InitCommands == (\E paths \in LoadedRegistries : RegistryLoaded(paths)) /\ CommandsRun /\ LoopIdle

SpecCommands == InitCommands /\ [][CommandsNext /\ UNCHANGED <<pvars, lvars>>]_vars

\* The command router in a channel with a policy.
InitPolicy == PluginInit /\ LaterRun /\ LoopIdle

SpecPolicy == InitPolicy /\ [][PolicyNext /\ UNCHANGED <<pvars, lvars>>]_vars

\* The fan-out of chat lines and of other events to the plugins loaded.
InitFanout == (\E paths \in LoadedRegistries : RegistryLoaded(paths)) /\ FanoutRun /\ LoopIdle

SpecFanout == InitFanout /\ [][FanoutNext /\ UNCHANGED <<pvars, lvars>>]_vars

\* The read loop with load commands, in which a load hook may never return.
SpecLoopHang ==
    /\ LoopInit
    /\ [][LoopLoadNext /\ UNCHANGED <<rvars, cvars, task>>]_vars
    /\ WF_vars(LoopProgress /\ UNCHANGED <<rvars, cvars, task>>)

\* The read loop: events arrive, their handling calls the registry, and each
\* is fanned out to the plugins.
SpecLoop == LoopInit /\ [][LoopNext /\ UNCHANGED <<rvars, cvars, task>>]_vars

(***************************************************************************)
(*                     THE CLAIMS ABOUT THE REGISTRY                       *)
(***************************************************************************)

\* The positions in a call's hook log at which hook `hook` of object obj ran.
HookIdx(log, hook, obj) ==
    {i \in 1..Len(log) : log[i].hook = hook /\ log[i].obj = obj}

\* Caller t is inside (or has just returned from) a direct LoadPlugin call of an
\* artifact whose plugin has the name of a loaded plugin with another version.
IsReplacingLoad(t) ==
    /\ call[t].op = "load"
    /\ ArtifactKind(call[t].path) = "ok"
    /\ MapHas(call[t].pre, PluginOf(call[t].path).name)
    /\ MapGet(call[t].pre, PluginOf(call[t].path).name).version # PluginOf(call[t].path).version

\* C1: a Load of (N, V2) while (N, V1) is loaded, V1 # V2, invokes V1's unload
\* hook exactly once (a module that has one) and before V2's load hook; the
\* registry never holds two modules under one name; and when the call has
\* returned success the registry holds exactly the V2 module for N.
C1_ReplaceUnloadsOnceBeforeLoad ==
    /\ \A e1, e2 \in plugins : e1.name = e2.name => e1 = e2
    /\ \A t \in Callers :
         IsReplacingLoad(t) =>
           LET c == call[t]
               new == PluginOf(c.path)
               old == MapGet(c.pre, new.name)
               unloads == HookIdx(c.log, "OnUnload", old.plugin.obj)
               loads == HookIdx(c.log, "OnLoad", new.obj)
           IN /\ c.pc \in {"open", "check"} => c.log = <<>>
              /\ c.pc \notin {"open", "check"} =>
                    Cardinality(unloads) = IF old.plugin.unloader THEN 1 ELSE 0
              /\ \A i \in unloads, j \in loads : i < j
              /\ c.pc = "onload" => loads = {}
              /\ (c.pc = "idle" /\ c.status = "ok") =>
                    /\ Cardinality(loads) = 1
                    /\ {e \in plugins : e.name = new.name}
                         = {[name |-> new.name, plugin |-> new, version |-> new.version,
                             loadTimestamp |-> pnow, filePath |-> c.path]}

\* C1's case: alpha version 1 was loaded, LoadPlugin(alpha_v2.so) has returned
\* success after running OnUnload of version 1 and OnLoad of version 2.
C1_Witness ==
    \E t \in Callers :
        /\ IsReplacingLoad(t)
        /\ call[t].pc = "idle" /\ call[t].status = "ok"
        /\ call[t].path = "alpha_v2.so"
        /\ Len(call[t].log) = 2
        /\ call[t].log[1].hook = "OnUnload" /\ call[t].log[1].obj = "alpha_v1"
        /\ call[t].log[2].hook = "OnLoad" /\ call[t].log[2].obj = "alpha_v2"

\* Caller t is inside (or has just returned from) a direct LoadPlugin call of an
\* artifact whose plugin reports the (name, version) of a loaded plugin.
IsRepeatedLoad(t) ==
    /\ call[t].op = "load"
    /\ ArtifactKind(call[t].path) = "ok"
    /\ MapHas(call[t].pre, PluginOf(call[t].path).name)
    /\ MapGet(call[t].pre, PluginOf(call[t].path).name).version = PluginOf(call[t].path).version

\* C2: a Load of an artifact that reports the (name, version) of a loaded
\* module is a no-op: at no point of the call does the registry differ from
\* what it was when the call began, no hook is invoked, and the call returns
\* success.
C2_SameVersionLoadIsNoOp ==
    \A t \in Callers :
        IsRepeatedLoad(t) =>
            /\ plugins = call[t].pre
            /\ pluginPaths = call[t].prePaths
            /\ call[t].log = <<>>
            /\ call[t].pc \in {"open", "check", "idle"}
            /\ call[t].pc = "idle" => call[t].status = "ok"

\* C2's case: alpha version 2 was loaded from alpha_v2.so at an earlier time, and
\* a Load of the alias alpha.so (the same name and version) has returned.
C2_Witness ==
    \E t \in Callers :
        /\ IsRepeatedLoad(t)
        /\ call[t].pc = "idle" /\ call[t].status = "ok"
        /\ call[t].path = "alpha.so"
        /\ \E e \in plugins : e.name = "alpha" /\ e.filePath = "alpha_v2.so"
                                /\ e.loadTimestamp < pnow



(***************************************************************************)
(*                  THE CLAIM ABOUT THE FAN-OUT (C11)                      *)
(***************************************************************************)

\* The events whose call of HandleMessages has returned.
Returned == {i \in 1..Len(loop.received) : i < Len(loop.received) \/ loop.pc = "idle"}

\* The positions of the log at which OnMessage of obj was called with event i.
Deliveries(i, obj) ==
    {k \in 1..Len(loop.log) : loop.log[k].event = i /\ loop.log[k].obj = obj}

\* C11: every event read from the connection is passed to OnMessage of every
\* module loaded when its fan-out begins, exactly once per module and to no
\* other object; the OnMessage calls are made in the order in which the events
\* were read; and the fan-out of an event is finished before the handling of
\* the next event starts.
C11_FanOutOncePerModuleInOrder ==
    /\ Len(loop.targets) <= Len(loop.received)
    /\ \A i \in Returned :
          /\ i <= Len(loop.targets)
          /\ \A obj \in loop.targets[i] : Cardinality(Deliveries(i, obj)) = 1
    /\ \A k \in 1..Len(loop.log) :
          /\ loop.log[k].event <= Len(loop.targets)
          /\ loop.log[k].obj \in loop.targets[loop.log[k].event]
          /\ Cardinality(Deliveries(loop.log[k].event, loop.log[k].obj)) = 1
    /\ \A j, k \in 1..Len(loop.log) : j < k => loop.log[j].event <= loop.log[k].event
    /\ loop.pc \in {"handle", "call", "handled"} =>
          \A k \in 1..Len(loop.log) : loop.log[k].event < Len(loop.received)

\* C11's case: three events have been handled and fanned out, the first to two
\* modules, the second, whose handling replaced one of them, to the new pair,
\* and the third, a PING, to the same pair.
C11_Witness ==
    /\ loop.pc = "idle"
    /\ Len(loop.received) = 3
    /\ loop.received[3] = "PING"
    /\ Cardinality(loop.targets[1]) = 2
    /\ Cardinality(loop.targets[2]) = 2
    /\ loop.targets[1] # loop.targets[2]
    /\ loop.targets[3] = loop.targets[2]
    /\ Len(loop.log) = 6

(***************************************************************************)
(*               MORE CLAIMS ABOUT THE REGISTRY (C12 .. C16)               *)
(***************************************************************************)

\* The artifacts that cannot be opened, that export no symbol "Plugin", or
\* whose exported value lacks a method of interface Plugin.
FailingArtifacts == {"badtype.so", "broken.so", "nosym.so"}

\* Caller t is inside (or has just returned from) a direct LoadPlugin call of
\* such an artifact.
IsFailingLoad(t) == call[t].op = "load" /\ call[t].path \in FailingArtifacts

\* C12: a Load that fails at the open, at the symbol lookup or at the
\* capability check returns an error and at no point of the call changes the
\* registry: every module loaded before stays loaded with its version, and no
\* hook is invoked.
C12_FailedLoadLeavesRegistry ==
    \A t \in Callers :
        IsFailingLoad(t) =>
            /\ plugins = call[t].pre
            /\ pluginPaths = call[t].prePaths
            /\ call[t].log = <<>>
            /\ call[t].pc \in {"open", "idle"}
            /\ call[t].pc = "idle" => call[t].status = "error"

\* C12's case: with alpha loaded, a Load of the artifact whose value lacks
\* OnMessage has returned an error.
C12_Witness ==
    \E t \in Callers :
        /\ IsFailingLoad(t)
        /\ call[t].path = "badtype.so"
        /\ call[t].pc = "idle" /\ call[t].status = "error"
        /\ \E e \in plugins : e.name = "alpha"

\* C13: every module in the registry comes from an artifact whose exported value
\* implements Name, Version, OnLoad, OnMessage and OnUnload.
C13_InstalledImplementFiveCapabilities ==
    \A e \in plugins :
        {"Name", "Version", "OnLoad", "OnMessage", "OnUnload"} \subseteq Methods(e.filePath)

\* Caller t has made an UnloadPlugin call.
IsUnload(t) == call[t].op = "unload"

\* C14: Unload(name) of a loaded module invokes its shutdown hook exactly once
\* (a module that has one), removes the module and returns success whatever
\* the hook returned; Unload(name) of a name that is not loaded returns an
\* error, invokes no hook and leaves the registry as it was.
C14_UnloadRemovesOrFails ==
    \A t \in Callers :
        IsUnload(t) =>
            LET c == call[t]
            IN IF \E e \in c.pre : e.name = c.name
               THEN LET old == CHOOSE e \in c.pre : e.name = c.name
                    IN /\ c.status = "ok"
                       /\ Len(c.log) = IF old.plugin.unloader THEN 1 ELSE 0
                       /\ \A i \in 1..Len(c.log) :
                             c.log[i].hook = "OnUnload" /\ c.log[i].obj = old.plugin.obj
                       /\ plugins = c.pre \ {old}
                       /\ pluginPaths = {e \in c.prePaths : e.name # c.name}
               ELSE /\ c.status = "error"
                    /\ c.log = <<>>
                    /\ plugins = c.pre
                    /\ pluginPaths = c.prePaths

\* C14's case: alpha was loaded, its OnUnload returned an error, and the Unload
\* has returned success with alpha gone.
C14_Witness ==
    \E t \in Callers :
        /\ IsUnload(t)
        /\ call[t].name = "alpha"
        /\ call[t].status = "ok"
        /\ Len(call[t].log) = 1 /\ call[t].log[1].err
        /\ \E e \in call[t].pre : e.name = "alpha"

\* The plugin name of a plugin object.
ObjName(obj) == PluginOf(CHOOSE p \in ArtifactPaths : PluginOf(p).obj = obj).name

\* The positions of a hook log at which an OnLoad hook returned success (each
\* is followed by the install of that object).
Installs(log) == {i \in 1..Len(log) : log[i].hook = "OnLoad" /\ ~log[i].err}

\* The objects a call has installed last under each name.
LastInstalled(log) ==
    {log[i].obj : i \in {j \in Installs(log) :
                            \A k \in Installs(log) :
                                ObjName(log[k].obj) = ObjName(log[j].obj) => k <= j}}

\* Caller t is inside (or has just returned from) a ReloadPluginsFromDir call.
IsReload(t) == call[t].op = "reload"

\* C15: ReloadAll invokes the shutdown hook of every module loaded when it was
\* called exactly once (a module that has one) and removes them all before any
\* artifact is loaded; when it has returned success the registry holds exactly
\* the modules the scan installed (for each name the one installed last); when
\* the directory cannot be read it returns count 0 with the error and the
\* registry is empty.
C15_ReloadUnloadsAllThenScans ==
    \A t \in Callers :
        IsReload(t) =>
            LET c == call[t]
                withHook == {e \in c.pre : e.plugin.unloader}
                k == Cardinality(withHook)
            IN /\ Len(c.log) >= k
               /\ \A i \in 1..k : c.log[i].hook = "OnUnload"
               /\ \A e \in withHook :
                     Cardinality({i \in 1..k : c.log[i].obj = e.plugin.obj}) = 1
               /\ \A i \in Installs(c.log) : i > k
               /\ c.pc = "readdir" => plugins = {} /\ pluginPaths = {}
               /\ \A e \in plugins :
                     \E i \in Installs(c.log) : c.log[i].obj = e.plugin.obj
               /\ (c.pc = "idle" /\ c.status = "ok") =>
                     {e.plugin.obj : e \in plugins} = LastInstalled(c.log)
               /\ (c.pc = "idle" /\ c.status = "error") =>
                     c.count = 0 /\ plugins = {} /\ pluginPaths = {}

\* C15's case: alpha and EchoPlugin were loaded, ReloadAll has run OnUnload of
\* alpha and returned success with modules loaded by its scan.
C15_Witness ==
    \E t \in Callers :
        /\ IsReload(t)
        /\ Cardinality(call[t].pre) = 2
        /\ call[t].pc = "idle" /\ call[t].status = "ok"
        /\ call[t].log[1].hook = "OnUnload"
        /\ plugins # {}

\* Caller t is inside (or has just returned from) a LoadPluginsFromDir call.
IsScan(t) == call[t].op = "scan"

\* The number of Load calls of the scan that returned success.
RECURSIVE Successes(_)
Successes(tried) ==
    IF tried = <<>> THEN 0
    ELSE (IF Head(tried).ok THEN 1 ELSE 0) + Successes(Tail(tried))

\* The Load calls made so far are those of the directory's first artifacts, in order.
TriedInOrder(c) ==
    /\ Len(c.tried) <= Len(DirFiles)
    /\ \A i \in 1..Len(c.tried) : c.tried[i].path = DirFiles[i]

LookupHostmasks == Hostmasks \cup {<<"al", "u@h9">>}

\* The durable record names a verified owner hostmask.
VerificationComplete ==
    /\ settings.file = "ok"
    /\ settings.data.ownerVerified
    /\ settings.data.ownerHostmask # <<>>

\* C17: a hostmask resolves to the level of its exact-hostmask record if there
\* is one; otherwise to Owner if verification is complete and it is the
\* verified-owner hostmask; otherwise to the level of the record keyed by its
\* nickname portion if there is one; otherwise to Regular.
C17_ResolutionOrder ==
    \A h \in LookupHostmasks :
        LET level == GetUserLevelByHostmask(World, h)
            exact == h \in DOMAIN hostmaskUsers
            owner == VerificationComplete /\ h = settings.data.ownerHostmask
            nick == <<h[1]>>
        IN /\ exact => level = hostmaskUsers[h]
           /\ (~exact /\ owner) => level = Owner
           /\ (~exact /\ ~owner /\ nick \in DOMAIN users) => level = users[nick]
           /\ (~exact /\ ~owner /\ nick \notin DOMAIN users) => level = Regular

\* C17's case: each step decides for one hostmask. al!u@h2 has an exact record
\* that differs from the record of its nickname; al!u@h1 has none and is the
\* verified owner, while the record of its nickname says otherwise; al!u@h9 has
\* only the record of its nickname; bo!u@h3 has no record.
C17_Witness ==
    /\ <<"al", "u@h2">> \in DOMAIN hostmaskUsers
    /\ <<"al">> \in DOMAIN users
    /\ hostmaskUsers[<<"al", "u@h2">>] # users[<<"al">>]
    /\ <<"al", "u@h1">> \notin DOMAIN hostmaskUsers
    /\ VerificationComplete /\ settings.data.ownerHostmask = <<"al", "u@h1">>
    /\ users[<<"al">>] = BadBoy
    /\ GetUserLevelByHostmask(World, <<"al", "u@h1">>) = Owner
    /\ GetUserLevelByHostmask(World, <<"al", "u@h9">>) = BadBoy
    /\ GetUserLevelByHostmask(World, <<"bo", "u@h3">>) = Regular

\* The window and the maximum that govern one timestamp list.
WindowOf(key) == IF key[1] = "msg" THEN tracker.messageWindow ELSE tracker.commandWindow

MaxOf(key) == IF key[1] = "msg" THEN tracker.maxMessagesPerWindow ELSE tracker.maxCommandsPerWindow

\* Calls i .. i+M of one list all lie inside one span shorter than W.
IsBurst(key, i) ==
    /\ i >= 1
    /\ i + MaxOf(key) <= Len(trackHist[key])
    /\ trackHist[key][i + MaxOf(key)].t - trackHist[key][i].t < WindowOf(key)

\* No earlier call of the list lies within W before call i.
IsFreshAt(key, i) ==
    i = 1 \/ trackHist[key][i - 1].t <= trackHist[key][i].t - WindowOf(key)

\* Every call of the list comes more than W after the previous one.
IsSpaced(key) ==
    \A j \in 2..Len(trackHist[key]) :
        trackHist[key][j].t - trackHist[key][j - 1].t > WindowOf(key)

NeverExceeded(key) == \A j \in 1..Len(trackHist[key]) : ~trackHist[key][j].exceeded

\* C5 (as amended): for one identity (and one command name), with window W and
\* maximum M >= 1: when M+1 consecutive Track calls lie inside one span shorter
\* than W, the last of them returns exceeded = true, and the first M return
\* exceeded = false provided no earlier call lies within W before the first;
\* when every call comes more than W after the previous one, no call returns
\* exceeded = true.
C5_BurstExceedsSpacedNever ==
    \A key \in DOMAIN trackHist :
        /\ \A i \in 1..Len(trackHist[key]) :
              IsBurst(key, i) =>
                /\ trackHist[key][i + MaxOf(key)].exceeded
                /\ IsFreshAt(key, i) =>
                      \A j \in i..(i + MaxOf(key) - 1) : ~trackHist[key][j].exceeded
        /\ IsSpaced(key) => NeverExceeded(key)

\* C5 witness: one list holds a burst of M+1 calls whose last call exceeded and
\* another list holds calls spaced more than W apart.
C5_Witness ==
    /\ \E key \in DOMAIN trackHist : IsBurst(key, 1) /\ trackHist[key][1 + MaxOf(key)].exceeded
    /\ \E key \in DOMAIN trackHist : Len(trackHist[key]) >= 2 /\ IsSpaced(key)

\* C5 as stated: in every burst of M+1 calls the first M return exceeded = false
\* and the last returns exceeded = true, whatever came before the burst.
C5_AsStated ==
    \A key \in DOMAIN trackHist :
        /\ \A i \in 1..Len(trackHist[key]) :
              IsBurst(key, i) =>
                /\ trackHist[key][i + MaxOf(key)].exceeded
                /\ \A j \in i..(i + MaxOf(key) - 1) : ~trackHist[key][j].exceeded
        /\ IsSpaced(key) => NeverExceeded(key)

\* The handling of the last line sent a reply of the given kind.
Replied(e, text) == \E i \in 1..Len(e.sent) : e.sent[i].text = text

\* The handling of the last line took the automatic-ignore branch.
AutoIgnored(e) == Replied(e, "auto_ignored") \/ Replied(e, "command_auto_ignored")

\* C3: a channel or private line from a sender that resolves to Ignored runs no
\* built-in handler, is not offered to the modules' command handlers and gets
\* no PRIVMSG or NOTICE from the core.
C3_IgnoredSenderGetsNothing ==
    (ev.kind # "none" /\ ev.level = Ignored) =>
        /\ ev.ran = <<>>
        /\ ev.offered = <<>>
        /\ ev.sent = <<>>
        /\ ~ev.ai

\* C3 witness: a command line arrived in the channel from a sender that resolved
\* to Ignored.
C3_Witness ==
    /\ ev.kind = "channel"
    /\ ev.level = Ignored
    /\ IsCommandLine(ev.message)

\* C4: once the automatic-ignore branch has run for a hostmask, that hostmask
\* resolves to Ignored in the running process and the durable settings hold
\* the Ignored level for it.
C4_AutoIgnoreResolvesIgnored ==
    AutoIgnored(ev) =>
        /\ GetUserLevelByHostmask(World, ev.hostmask) = Ignored
        /\ Get(LoadSettings(settings).s.hostmasks, ev.hostmask, Regular) = Ignored

\* C6: an Owner-required permission check passes only for the hostmask of the
\* verified owner record.
C6_OwnerCheckNeedsVerifiedHostmask ==
    \A h \in Hostmasks :
        HasPermission(World, h, Owner) =>
            /\ OwnerOnRecord(LoadSettings(settings))
            /\ h = LoadSettings(settings).s.ownerHostmask

\* C7: after a private message with the passphrase from the pending nickname has
\* been accepted, the sender's hostmask is the durable owner record, its level
\* is Owner, no nickname is pending and an Owner-required check for it passes.
C7_CorrectPassphraseVerifies ==
    (ev.kind = "private" /\ Replied(ev, "verification_successful")) =>
        /\ LoadSettings(settings).s.ownerVerified
        /\ LoadSettings(settings).s.ownerHostmask = ev.hostmask
        /\ GetUserLevelByHostmask(World, ev.hostmask) = Owner
        /\ HasPermission(World, ev.hostmask, Owner)
        /\ \A n \in DOMAIN pending : ~pending[n]

\* This step handles a private message from a pending nickname whose text is
\* not the passphrase.
IsWrongReply ==
    /\ now' = now + 1
    /\ ev'.kind = "private"
    /\ checkPendingVerification(pending, PrefixName(ev'.hostmask))
    /\ TrimSpace(ev'.message) # VerificationPassphrase

WrongReplyChangesNothing ==
    /\ checkPendingVerification(pending', PrefixName(ev'.hostmask))
    /\ pending' = pending
    /\ users' = users
    /\ hostmaskUsers' = hostmaskUsers
    /\ settings' = settings
    /\ Replied(ev', "verification_failed")

NotRateLimited(e) ==
    ~Replied(e, "warning") /\ ~Replied(e, "command_warning") /\ ~AutoIgnored(e)

\* C9: for the Admin-required command "op", sent in a channel whose policy
\* allows it by a sender that is not rate-limited: a Regular sender gets no
\* handler run and a denial naming "Admin" and "Regular"; an Admin or Owner
\* sender gets the handler run with the parsed arguments.
C9_AdminCommandByLevel ==
    (/\ ev.kind = "channel"
     /\ IsCommandLine(ev.message)
     /\ Head(ev.message.words) = "op"
     /\ IsCommandEnabledForChannel(channelSettings, Channel, "op")
     /\ NotRateLimited(ev)) =>
        /\ ev.level = Regular =>
              /\ ev.ran = <<>>
              /\ ev.sent = <<Msg("PRIVMSG", Channel, "denied", "Admin", "Regular")>>
        /\ ev.level \in {Admin, Owner} =>
              ev.ran = <<[name |-> "op", args |-> Tail(ev.message.words)]>>

\* The elements of a list.
Elems(list) == {list[i] : i \in 1..Len(list)}

\* The policy of the channel rejects the command.
PolicyRejects(name) ==
    \/ name \in Elems(GetChannelConfig(channelSettings, Channel).disabled)
    \/ /\ GetChannelConfig(channelSettings, Channel).enabled # <<>>
       /\ name \notin Elems(GetChannelConfig(channelSettings, Channel).enabled)

\* The last line was a built-in command that reached the policy check of the
\* router and was rejected there.
RejectedByPolicy ==
    /\ ev.kind = "channel"
    /\ IsCommandLine(ev.message)
    /\ ~containsNick(BotNick, ev.message)
    /\ Head(ev.message.words) \in BuiltinCommands
    /\ ev.level # Ignored
    /\ ~AutoIgnored(ev)
    /\ PolicyRejects(Head(ev.message.words))

PolicyEvaluation ==
    \A name \in BuiltinCommands :
        IsCommandEnabledForChannel(channelSettings, Channel, name) <=> ~PolicyRejects(name)

\* C10 (as amended): the policy permits a command iff it is not in the deny-list
\* and the allow-list is empty or contains it (so a command in both lists is
\* rejected); whatever the sender's level, a rejected built-in command runs no
\* handler and gets no reply other than the rate-limit warnings sent to a sender
\* over the limit before the policy is consulted.
C10_PolicyDecidesSilently ==
    /\ PolicyEvaluation
    /\ RejectedByPolicy =>
          /\ ev.ran = <<>>
          /\ ev.offered = <<>>
          /\ \A i \in 1..Len(ev.sent) : ev.sent[i].text \in {"warning", "command_warning"}

\* C10 witness: a command that is in both lists, sent by a sender that resolves
\* to Owner, was rejected.
C10_Witness ==
    /\ RejectedByPolicy
    /\ ev.level = Owner
    /\ Head(ev.message.words) \in Elems(GetChannelConfig(channelSettings, Channel).disabled)
    /\ Head(ev.message.words) \in Elems(GetChannelConfig(channelSettings, Channel).enabled)

\* C10 as stated: a rejected built-in command gets no reply at all.
C10_AsStated ==
    /\ PolicyEvaluation
    /\ RejectedByPolicy => (ev.ran = <<>> /\ ev.sent = <<>>)


(***************************************************************************)
(*               THE CLAIMS ABOUT THE ROUTER (C18 .. C20)                  *)
(***************************************************************************)

\* The handling of the last line sent cmd to target with the given text.
SentTo(e, cmd, to, text) ==
    \E i \in 1..Len(e.sent) :
        e.sent[i].cmd = cmd /\ e.sent[i].to = to /\ e.sent[i].text = text

\* C18: when the command-rate check of the router reports a violation: below
\* the warning threshold a warning NOTICE goes to the sender; at the threshold
\* the identity resolves to Ignored from then on, the durable settings hold the
\* demotion, the sender and the channel are notified and no handler runs.
C18_CommandViolationWarnsOrDemotes ==
    \A i \in 1..Len(ev.spam) :
        ev.spam[i].check = "command" =>
            IF ~ev.spam[i].reached
            THEN SentTo(ev, "NOTICE", PrefixName(ev.hostmask), "command_warning")
            ELSE /\ GetUserLevelByHostmask(World, ev.hostmask) = Ignored
                 /\ Get(LoadSettings(settings).s.hostmasks, ev.hostmask, Regular) = Ignored
                 /\ SentTo(ev, "NOTICE", PrefixName(ev.hostmask), "command_auto_ignored")
                 /\ SentTo(ev, "PRIVMSG", Channel, "command_auto_ignored")
                 /\ ev.ran = <<>>
                 /\ ev.invoked = <<>>

\* The last line was a command line that the router offered to the modules.
IsOffered == ev.kind = "channel" /\ ev.offered # <<>>

\* The loaded modules whose declared command list contains the name, and those
\* that the table of legacy commands lists with the name.
Declaring(name) ==
    {e \in plugins : e.plugin.commandHandler
                        /\ \E i \in 1..Len(e.plugin.commands) : e.plugin.commands[i] = name}

LegacyFor(name) ==
    {e \in plugins : (e.name = "SamplePlugin" /\ name = "test")
                        \/ (e.name = "EchoPlugin" /\ name = "echo")}

\* The one handler invoked belongs to a module that declares the name, and is
\* passed the name and the arguments of the line.
InvokedIsDeclared ==
    \A i \in 1..Len(ev.invoked) :
        /\ \E e \in Declaring(ev.offered[1].name) : e.plugin.obj = ev.invoked[i].obj
        /\ ev.invoked[i].name = ev.offered[1].name
        /\ ev.invoked[i].args = ev.offered[1].args

\* C19 (as amended): a command name absent from the static registry is offered
\* to the loaded modules. At most one handler is invoked, that of a module
\* whose declared list contains the name. The result is handled = true exactly
\* when some loaded module declares the name or is listed with it in the table
\* of legacy commands; when a module of that table is loaded, true can be
\* returned with no handler invoked, and otherwise exactly one handler is
\* invoked whenever a module declares the name.
C19_PluginCommandOffer ==
    IsOffered =>
        LET name == ev.offered[1].name
        IN /\ name \notin BuiltinCommands
           /\ Len(ev.offered) = 1
           /\ Len(ev.invoked) <= 1
           /\ InvokedIsDeclared
           /\ ev.handled = "true" <=> (Declaring(name) # {} \/ LegacyFor(name) # {})
           /\ ev.handled = "false" <=> (Declaring(name) = {} /\ LegacyFor(name) = {})
           /\ (Declaring(name) # {} /\ LegacyFor(name) = {}) => Len(ev.invoked) = 1
           /\ (ev.handled = "true" /\ ev.invoked = <<>>) => LegacyFor(name) # {}

\* C19's case: "!echo hi" was offered while two modules that declare "echo"
\* were loaded, and the handler of one of them ran.
C19_Witness ==
    /\ IsOffered
    /\ ev.offered[1].name = "echo"
    /\ Cardinality(Declaring("echo")) = 2
    /\ Len(ev.invoked) = 1
    /\ ev.handled = "true"

\* C19 as stated: exactly one handler of a declaring module is invoked and the
\* result is true when a loaded module declares the name; no handler is invoked
\* and the result is false when none does.
C19_AsStated ==
    IsOffered =>
        LET name == ev.offered[1].name
        IN /\ InvokedIsDeclared
           /\ Declaring(name) # {} => (Len(ev.invoked) = 1 /\ ev.handled = "true")
           /\ Declaring(name) = {} => (ev.invoked = <<>> /\ ev.handled = "false")

\* C20: a line "!X ..." sent in a channel whose deny-list contains X, or whose
\* non-empty allow-list does not contain X, runs no handler for X, built-in or
\* declared by a loaded module.
C20_PolicyStopsEveryHandler ==
    (/\ ev.kind = "channel"
     /\ IsCommandLine(ev.message)
     /\ PolicyRejects(Head(ev.message.words))) =>
        /\ \A i \in 1..Len(ev.ran) : ev.ran[i].name # Head(ev.message.words)
        /\ \A i \in 1..Len(ev.invoked) : ev.invoked[i].name # Head(ev.message.words)



(***************************************************************************)
(*                 THE CLAIMS ABOUT THE FAN-OUT (C21, C22)                 *)
(***************************************************************************)

\* C21: a chat line from a sender that resolves to Ignored is not fanned out:
\* no OnMessage, chat-line or direct-mention handler of any module is called
\* for it.
C21_IgnoredLineNotFannedOut ==
    (ev.kind \in {"channel", "private"} /\ ev.level = Ignored) => ev.fanout = <<>>

\* The positions of the fan-out at which a method of a plugin object is called.
Calls(obj, method) ==
    {k \in 1..Len(ev.fanout) : ev.fanout[k] = [obj |-> obj, method |-> method]}

\* The commands on which dispatchToPlugins calls an event handler.
CommandsOf(method) ==
    CASE method = "OnKick"        -> {"KICK"}
      [] method = "OnJoin"        -> {"JOIN"}
      [] method = "OnPart"        -> {"PART"}
      [] method = "OnQuit"        -> {"QUIT"}
      [] method = "OnNickChange"  -> {"NICK"}
      [] method = "OnInvite"      -> {"INVITE"}
      [] method = "OnTopicChange" -> {"TOPIC", "332", "333"}
      [] method = "OnNotice"      -> {"NOTICE"}
      [] method = "OnError"       -> {"ERROR"}
      [] method = "OnMode"        -> {"MODE"}
      [] OTHER                    -> {}

\* The one command a reader takes to match each handler.
CommandsStated(method) ==
    IF method = "OnTopicChange" THEN {"TOPIC"} ELSE CommandsOf(method)

Mentioned == ev.command = "PRIVMSG" /\ containsNick(BotNick, ev.message)

UserRecord(m, hostmask) ==
    [messages |-> IF Has(m.userMessages, hostmask) THEN <<m.userMessages[hostmask]>> ELSE <<>>,
     commands |-> IF Has(m.userCommandUsage, hostmask) THEN <<m.userCommandUsage[hostmask]>> ELSE <<>>,
     warnings |-> IF Has(m.warningCounts, hostmask) THEN <<m.warningCounts[hostmask]>> ELSE <<>>]

NoRecord == [messages |-> <<>>, commands |-> <<>>, warnings |-> <<>>]

OthersKept(hostmask) ==
    \A g \in RateUsers \ {hostmask} : UserRecord(tracker', g) = UserRecord(tracker, g)

\* The AddWarning calls made for an identity since its last reset.
Warnings(hostmask) == Get(trackHist, <<"warn", hostmask, "">>, <<>>)

\* Once AddWarning has returned true for an identity it returns true on each
\* later call, until a reset, unless the threshold was raised in between.
StaysReached ==
    \A h \in RateUsers : \A i, j \in 1..Len(Warnings(h)) :
        (i < j /\ Warnings(h)[i].exceeded /\ Warnings(h)[j].threshold <= Warnings(h)[i].threshold)
            => Warnings(h)[j].exceeded

\* C23: a warning count decreases through ResetUser only; AddWarning raises
\* the identity's count by one and returns true exactly if the new count has
\* reached the threshold in force, so that it goes on returning true until a
\* reset or a raise of the threshold; ResetUser removes the identity's message
\* timestamps, command timestamps and warning count; both leave the records of
\* the other identities as they were.
C23_WarningCountAndReset ==
    /\ []StaysReached
    /\ [][\A h \in RateUsers :
            /\ DoAddWarning(h) =>
                  /\ GetWarningCount(tracker', h) = GetWarningCount(tracker, h) + 1
                  /\ Warnings(h)'[Len(Warnings(h)')].exceeded =
                        (GetWarningCount(tracker', h) >= tracker.warningThreshold)
                  /\ OthersKept(h)
            /\ DoResetUser(h) => (UserRecord(tracker', h) = NoRecord /\ OthersKept(h))
            /\ GetWarningCount(tracker', h) < GetWarningCount(tracker, h) => DoResetUser(h)]_vars

\* C23's case: AddWarning has returned true twice in a row for an identity that
\* has timestamps on record, and the other identity has no record.
C23_Witness ==
    \E h \in RateUsers :
        /\ Len(Warnings(h)) = 2
        /\ Warnings(h)[1].exceeded /\ Warnings(h)[2].exceeded
        /\ GetWarningCount(tracker, h) = 2
        /\ Has(tracker.userMessages, h)
        /\ \A g \in RateUsers \ {h} : UserRecord(tracker, g) = NoRecord

\* C23 as stated: once AddWarning has returned true it returns true on every
\* later call until a reset.
C23_AsStated ==
    \A h \in RateUsers : \A i, j \in 1..Len(Warnings(h)) :
        (i < j /\ Warnings(h)[i].exceeded) => Warnings(h)[j].exceeded

\* The Track calls made on a timestamp list.
Tracked(kind, hostmask, commandName) == Get(trackHist, <<kind, hostmask, commandName>>, <<>>)

\* What C24 says of a timestamp list after the Track call that touched it, with
\* the window and the maximum in force at the call.
FreshAndCounted(list, hist, window, max) ==
    /\ list # <<>>
    /\ list[Len(list)] = now'
    /\ \A k \in 1..Len(list) : list[k] > now' - window
    /\ hist[Len(hist)].count = Len(list)
    /\ hist[Len(hist)].exceeded = (Len(list) > max)

\* C24: right after a TrackMessage or TrackCommand call the list it touched
\* holds only timestamps strictly newer than now minus the window in force,
\* the timestamp of the call among them, the count returned is the length of
\* the list and the flag returned compares it with the maximum in force, the
\* window and maximum being those of the latest set.
C24_TrackPrunesAndCounts ==
    [][\A h \in RateUsers, gap \in 1..MaxTrackerTime :
         /\ TrackMessageAt(h, gap) =>
               FreshAndCounted(tracker'.userMessages[h], Tracked("msg", h, "")',
                               tracker.messageWindow, tracker.maxMessagesPerWindow)
         /\ \A c \in RateCommands :
               TrackCommandAt(h, c, gap) =>
                   FreshAndCounted(tracker'.userCommandUsage[h][c], Tracked("cmd", h, c)',
                                   tracker.commandWindow, tracker.maxCommandsPerWindow)]_vars

\* C24's case: the message window was set at run time, and a TrackMessage call
\* after it dropped the earlier timestamp and returned the count 1.
C24_Witness ==
    /\ tracker.messageWindow # DefaultMessageWindow
    /\ \E h \in RateUsers :
          /\ Len(Tracked("msg", h, "")) = 2
          /\ Tracked("msg", h, "")[1].count = 1
          /\ Tracked("msg", h, "")[2].count = 1
          /\ tracker.userMessages[h] = <<now>>


(***************************************************************************)
(*             THE CLAIM ABOUT THE VERIFICATION SESSION (C25)              *)
(***************************************************************************)

\* The passphrase was matched: the entry of a nickname was set to false.
VerificationDone == \E n \in DOMAIN pending : ~pending[n]

\* C25: once the passphrase has been matched, no nickname is pending again and
\* the durable owner hostmask is not replaced, whatever happens to the
\* connection.
C25_VerifiedOnce ==
    [][VerificationDone =>
          /\ \A n \in DOMAIN pending' : ~pending'[n]
          /\ LoadSettings(settings').s.ownerHostmask = LoadSettings(settings).s.ownerHostmask]_vars

\* The durable owner is the second hostmask that sent the passphrase, and the
\* first one is gone from the settings file.
OwnerReplaced ==
    /\ ev.kind = "private"
    /\ ev.hostmask = <<"al", "u@h2">>
    /\ LoadSettings(settings).s.ownerHostmask = <<"al", "u@h2">>
    /\ ~Has(LoadSettings(settings).s.hostmasks, <<"al", "u@h1">>)
    /\ Has(hostmaskUsers, <<"al", "u@h1">>)


(***************************************************************************)
(*                  THE CLAIM ABOUT A HANGING LOAD (C26)                   *)
(***************************************************************************)

\* The command of the current event is inside a module's load hook.
LoadInFlight == loop.pc = "call" /\ call["loop"].pc = "onload"

\* C26: a load that hangs does not stop the loop: while a load is in flight
\* and the connection has a further event, the handling of a further event
\* begins.
C26_HangingLoadBlocksOnlyItsCommand ==
    []((LoadInFlight /\ Len(loop.received) < MaxEvents) => <>(loop.pc = "handle"))


(***************************************************************************)
(*                THE CLAIM ABOUT THE SHARED STATE (C27)                   *)
(***************************************************************************)

\* C27: the verification request task and the read loop never access the
\* pending-verification map at the same time without a lock.
C27_NoRaceOnPendingVerifications == ~(task.pc = "writing" /\ task.reading)


(***************************************************************************)
(*              THE CLAIM ABOUT A FAILED DURABLE WRITE (C28)               *)
(***************************************************************************)

\* The lines of the run: the three commands that end in setLevelCmd, for a
\* nickname with a known hostmask and for one without.
SetLevelLines ==
    {Line(FALSE, TRUE, <<"setlevel", "bo", "admin">>),
     Line(FALSE, TRUE, <<"ignore", "bo">>),
     Line(FALSE, TRUE, <<"unignore", "bo">>),
     Line(FALSE, TRUE, <<"ignore", "cy">>)}

SetLevelNext ==
    \E h \in Senders, m \in SetLevelLines, save \in SaveOutcomes : ChannelMessage(h, m, save)

InitSetLevel == PluginInit /\ LoopIdle /\ CommandsRun

SpecSetLevel == InitSetLevel /\ [][SetLevelNext /\ UNCHANGED <<pvars, lvars>>]_vars

\* The level a line of SetLevelLines asks for.
LevelAsked(m) ==
    CASE Head(m.words) = "ignore" -> Ignored
      [] Head(m.words) = "unignore" -> Regular
      [] OTHER -> ParseLevel(m.words[3])

\* The handling of the line got as far as the durable write.
WriteAttempted(e) == Replied(e, "save_error") \/ Replied(e, "level_changed")

\* Every in-memory entry of the nickname holds the level, and there is one.
LevelInMemory(u, hu, nick, level) ==
    /\ Has(u, nick) /\ u[nick] = level
    /\ \E x \in DOMAIN hu : HasPrefixBang(x, nick)
    /\ \A x \in DOMAIN hu : HasPrefixBang(x, nick) => hu[x] = level

\* The settings file holds the in-memory hostmask levels.
Persisted(f, hu) ==
    /\ ~LoadSettings(f).err
    /\ LoadSettings(f).s.hostmaskLevels
    /\ LoadSettings(f).s.hostmasks = hu

\* C28: when the durable write of setlevel, ignore or unignore fails, the
\* reply is the error and not the success message and the level asked for is
\* in memory all the same; when the write succeeds, the reply is the success
\* message and the file holds the whole in-memory state, the changes of
\* earlier failed writes included.
C28_FailedSaveKeepsChange ==
    [][\A save \in SaveOutcomes :
          (WriteAttempted(ev') /\ ChannelMessage(ev'.hostmask, ev'.message, save)) =>
              /\ LevelInMemory(users', hostmaskUsers', SplitBang(ev'.message.words[2]),
                               LevelAsked(ev'.message))
              /\ save # "ok" => Replied(ev', "save_error") /\ ~Replied(ev', "level_changed")
              /\ save = "ok" => /\ Replied(ev', "level_changed") /\ ~Replied(ev', "save_error")
                                /\ Persisted(settings', hostmaskUsers')]_vars

\* C28's case: the write failed, the caller got the error reply, and the level
\* is in memory but not in the file.
C28_Witness ==
    /\ Replied(ev, "save_error")
    /\ ev.message = Line(FALSE, TRUE, <<"ignore", "bo">>)
    /\ LevelInMemory(users, hostmaskUsers, <<"bo">>, Ignored)
    /\ ~Persisted(settings, hostmaskUsers)

\* A state after a successful write that holds the change of an earlier
\* command: bo is ignored in memory and in the file while the last line was
\* about cy.
LaterSavePersisted ==
    /\ Replied(ev, "level_changed")
    /\ ev.message = Line(FALSE, TRUE, <<"ignore", "cy">>)
    /\ LevelInMemory(users, hostmaskUsers, <<"bo">>, Ignored)
    /\ Persisted(settings, hostmaskUsers)


(***************************************************************************)
(*                 THE CLAIM ABOUT THE LOAD COMMAND (C29)                  *)
(***************************************************************************)

\* The arguments of the load commands: the stable alias of plugin alpha, which
\* is the plugin's name, its two versioned artifacts, and a name without file.
LoadCommandNames == {"alpha", "alpha_v1", "alpha_v2", "gamma"}

HotSwapNext ==
    \/ \E n \in LoadCommandNames : loadPluginCmd("loop", n)
    \/ StepOpen("loop")
    \/ StepCheck("loop")
    \/ StepOnLoad("loop")
    \/ StepInstall("loop")

SpecHotSwap == Init /\ [][HotSwapNext /\ UNCHANGED <<rvars, cvars, lvars>>]_vars

\* The load command of the loop has answered.
LoadAnswered == call["loop"].op = "load" /\ call["loop"].pc = "idle"

\* The command named a plugin that was loaded, and the artifact of that name
\* holds another version of it.
RebuiltAndLoaded(c) ==
    /\ MapHas(c.pre, c.arg)
    /\ c.path \in ArtifactPaths
    /\ ArtifactKind(c.path) = "ok"
    /\ PluginOf(c.path).name = c.arg
    /\ PluginOf(c.path).version # MapGet(c.pre, c.arg).version

Logged(c, hook, obj) == \E i \in 1..Len(c.log) : c.log[i].hook = hook /\ c.log[i].obj = obj

\* The old version's shutdown hook ran, and the new version is registered
\* unless its load hook failed.
Swapped(c) ==
    /\ Logged(c, "OnUnload", MapGet(c.pre, PluginOf(c.path).name).plugin.obj)
    /\ \/ /\ MapHas(plugins, PluginOf(c.path).name)
          /\ MapGet(plugins, PluginOf(c.path).name).version = PluginOf(c.path).version
       \/ c.status = "error"

\* C29: a load command given the name of a loaded plugin whose artifact was
\* rebuilt with another version has, when it answers, invoked the old
\* version's shutdown hook and registered the new version.
C29_LoadByNameHotSwaps ==
    (LoadAnswered /\ RebuiltAndLoaded(call["loop"])) => Swapped(call["loop"])

\* The command answered "already loaded" for plugin alpha, whose version 1 is
\* registered while alpha.so holds version 2.
LoadByNameRefused ==
    /\ LoadAnswered
    /\ call["loop"].arg = "alpha"
    /\ call["loop"].status = "already_loaded"
    /\ MapGet(plugins, "alpha").version = "1"
    /\ call["loop"].log = <<>>

\* The same swap asked for by the file name of the new artifact was made.
LoadByFileSwapped ==
    /\ LoadAnswered
    /\ call["loop"].arg = "alpha_v2"
    /\ call["loop"].status = "ok"
    /\ MapHas(call["loop"].pre, "alpha")
    /\ MapGet(call["loop"].pre, "alpha").version = "1"
    /\ Swapped(call["loop"])


(***************************************************************************)
(*                THE CLAIM ABOUT THE DENIAL REPLY (C30)                   *)
(***************************************************************************)

\* The replies of the router's permission check to the last line.
Denials(e) ==
    {i \in 1..Len(e.sent) : e.sent[i].text \in {"denied", "denied_owner"}}

\* The command word of the last line.
CommandOf(e) == Head(e.message.words)

\* The reply names the level that the command requires: "requires owner
\* access", or "requires <level> level".
NamesRequired(e, msg) ==
    \/ msg.text = "denied_owner" /\ RequiredLevel(CommandOf(e)) = Owner
    \/ msg.text = "denied" /\ msg.a = LevelName(RequiredLevel(CommandOf(e)))

\* The reply names the sender's level: "Your level: <level>".
NamesCurrent(e, msg) == msg.text = "denied" /\ msg.b = LevelName(e.level)

\* C30: a refusal of the router for want of permission runs no handler and
\* names the required level; it names the sender's level too exactly when the
\* command requires less than Owner. A handler that requires less than Owner
\* runs only for a sender of at least that level.
C30_DenialNamesLevelsBelowOwner ==
    /\ \A i \in Denials(ev) :
          /\ CommandOf(ev) \in BuiltinCommands
          /\ ev.ran = <<>>
          /\ NamesRequired(ev, ev.sent[i])
          /\ NamesCurrent(ev, ev.sent[i]) <=> RequiredLevel(CommandOf(ev)) # Owner
          /\ RequiredLevel(CommandOf(ev)) # Owner => ev.level < RequiredLevel(CommandOf(ev))
    /\ \A i \in 1..Len(ev.ran) :
          RequiredLevel(ev.ran[i].name) # Owner => ev.level >= RequiredLevel(ev.ran[i].name)

\* C30's case: a Regular sender was refused a command that requires Admin, and
\* the reply names both levels.
C30_Witness ==
    /\ Denials(ev) # {}
    /\ ev.level = Regular
    /\ RequiredLevel(CommandOf(ev)) = Admin
    /\ \A i \in Denials(ev) : ev.sent[i].a = "Admin" /\ ev.sent[i].b = "Regular"

\* C30 as stated: every refusal, those of Owner-required commands included,
\* names the required level and the sender's level and runs no handler.
C30_AsStated ==
    \A i \in Denials(ev) :
        /\ ev.ran = <<>>
        /\ NamesRequired(ev, ev.sent[i])
        /\ NamesCurrent(ev, ev.sent[i])


(***************************************************************************)
(*           THE CLAIM ABOUT COMMAND LINES THAT NAME THE BOT (C31)         *)
(***************************************************************************)

\* commands.HandleCommand was called for the last line: its TrackCommand call
\* stored the time of the line for the sender and the command word.
RouterCalled(e) ==
    LET usage == Get(Get(tracker.userCommandUsage, e.hostmask, EmptyMap),
                     Head(e.message.words), <<>>)
    IN usage # <<>> /\ usage[Len(usage)] = now

\* C31: a channel line that starts with the command prefix, from a sender that
\* is not Ignored and is not demoted by the message-rate check of this line,
\* is passed to the command router, also when the line names the bot.
C31_PrefixedLineReachesRouter ==
    (ev.kind = "channel" /\ IsCommandLine(ev.message) /\ ev.level # Ignored
        /\ ~Replied(ev, "auto_ignored")) => RouterCalled(ev)

\* A command line that names the bot went to the mention branch and not to
\* the router.
MentionNotRouted ==
    /\ ev.kind = "channel"
    /\ ev.message = Line(FALSE, TRUE, <<"op", "MBot">>)
    /\ ev.level = Owner
    /\ ev.ai
    /\ ev.sent = <<>>
    /\ ~RouterCalled(ev)

\* A command line that does not name the bot reached the router.
PlainCommandRouted ==
    /\ ev.kind = "channel"
    /\ ev.message = Line(FALSE, TRUE, <<"op", "bo">>)
    /\ RouterCalled(ev)


(***************************************************************************)
(*              THE CLAIM ABOUT IGNORE AND UNIGNORE (C32)                  *)
(***************************************************************************)

\* The setlevel, ignore and unignore lines sent to a bot whose owner is
\* verified and whose tracker allows one line and one use of a command per
\* window.
SugarLines ==
    {Line(FALSE, TRUE, <<"setlevel", "bo", "admin">>),
     Line(FALSE, TRUE, <<"ignore", "bo">>),
     Line(FALSE, TRUE, <<"unignore", "bo">>)}

SugarNext ==
    \E h \in Senders, m \in SugarLines, save \in SaveOutcomes : ChannelMessage(h, m, save)

SpecSugar == InitPolicy /\ [][SugarNext /\ UNCHANGED <<pvars, lvars>>]_vars

\* The last line is "!ignore <nick>" or "!unignore <nick>".
IsSugar(m) == IsCommandLine(m) /\ Head(m.words) \in {"ignore", "unignore"}

\* The setlevel line that the line stands for.
SetLevelLineOf(m) ==
    Line(FALSE, TRUE, <<"setlevel", m.words[2],
                        IF Head(m.words) = "ignore" THEN "ignored" ELSE "regular">>)

\* What the handling of the setlevel line in place of the last line gives.
AsSetLevel(hostmask, m, save) ==
    HandleChannelMessage(World, channelSettings, hostmask, Channel, SetLevelLineOf(m), now + 1, save)

\* The step leaves the levels and the settings file as the result w does.
SameLevelsAs(w) ==
    /\ users' = w.users
    /\ hostmaskUsers' = w.hostmaskUsers
    /\ settings' = w.settings

OwnerIgnored ==
    /\ ev.message = Line(FALSE, TRUE, <<"ignore", "bo">>)
    /\ Replied(ev, "level_changed")
    /\ users[<<"bo">>] = Ignored


(***************************************************************************)
(*               THE CLAIM ABOUT THE RESET COMMAND (C33)                   *)
(***************************************************************************)

\* Chat lines and reset commands in the channel of a bot whose owner al is
\* verified; bo has no level record.
ResetLines ==
    {Line(FALSE, FALSE, <<"hello">>),
     Line(FALSE, TRUE, <<"ratelimit", "reset", "bo">>),
     Line(FALSE, TRUE, <<"ratelimit", "reset", "al">>),
     Line(FALSE, TRUE, <<"ratelimit", "set", "warning", "2">>),
     Line(FALSE, TRUE, <<"ratelimit", "info">>)}

ResetNext ==
    \E h \in Senders, m \in ResetLines : ChannelMessage(h, m, "ok")

SpecReset == InitPolicy /\ [][ResetNext /\ UNCHANGED <<pvars, lvars>>]_vars

\* The last line was a reset command that the handler carried out for nick.
ResetDone(e, nick) ==
    /\ Len(e.ran) = 1
    /\ e.ran[1] = [name |-> "ratelimit", args |-> <<"reset", nick>>]
    /\ Replied(e, "ratelimit_reset") \/ Replied(e, "no_hostmasks")

\* The tracker holds nothing for the hostmask.
Cleared(m, hostmask) ==
    /\ ~Has(m.userMessages, hostmask)
    /\ ~Has(m.userCommandUsage, hostmask)
    /\ GetWarningCount(m, hostmask) = 0

\* C33: after a reset command for a nickname, the tracker holds no message or
\* command timestamps and no warnings for any hostmask of that nickname,
\* whether the hostmask has a level record or not.
C33_ResetClearsEveryIdentity ==
    \A nick \in {"al", "bo"} :
        ResetDone(ev, nick) =>
            \A h \in Hostmasks : Head(h) = nick => Cleared(tracker, h)

\* The reset for bo, who has no level record, found no hostmask and left bo's
\* warning in place.
UnregisteredNotReset ==
    /\ ResetDone(ev, "bo")
    /\ Replied(ev, "no_hostmasks")
    /\ ~Has(hostmaskUsers, <<"bo", "u@h3">>)
    /\ GetWarningCount(tracker, <<"bo", "u@h3">>) = 1

\* The reset for al, whose hostmask has a level record, cleared it.
RegisteredReset ==
    /\ ResetDone(ev, "al")
    /\ Replied(ev, "ratelimit_reset")
    /\ ev.spam # <<>>
    /\ Cleared(tracker, <<"al", "u@h1">>)


(***************************************************************************)
(*            THE CLAIM ABOUT THE MODULES OF THE REGISTRY (C34)            *)
(***************************************************************************)

\* What the hooks called so far by the current registry call have made of
\* plugin object obj: nothing, loaded (its OnLoad returned nil), unloaded (its
\* OnUnload was called) or load_failed.
LastHook(log, obj) ==
    LET idx == {i \in 1..Len(log) : log[i].obj = obj}
        last == CHOOSE i \in idx : \A j \in idx : j <= i
    IN IF idx = {} THEN "nothing"
       ELSE IF log[last].hook = "OnUnload" THEN "unloaded"
       ELSE IF log[last].err THEN "load_failed"
       ELSE "loaded"

\* C34: when the registry call has returned, no plugin of the registry has
\* had its unload hook called by it without a successful load hook after.
C34_RegistryModulesAreLive ==
    call["loop"].pc = "idle" =>
        \A e \in plugins : LastHook(call["loop"].log, e.plugin.obj) \in {"nothing", "loaded"}

\* A load of another version of alpha returned an error from its load hook
\* after the unload hook of the registered version had run; the registered
\* version is still in the registry.
UnloadedModuleKept ==
    /\ call["loop"].pc = "idle"
    /\ call["loop"].op = "load"
    /\ call["loop"].status = "error"
    /\ call["loop"].log = <<HookEvent("OnUnload", "alpha_v1", FALSE), HookEvent("OnLoad", "alpha_v2", TRUE)>>
    /\ MapHas(plugins, "alpha")
    /\ MapGet(plugins, "alpha").plugin.obj = "alpha_v1"


(***************************************************************************)
(*             THE CLAIM ABOUT CONCURRENT REGISTRY CALLS (C35)             *)
(***************************************************************************)

\* Two goroutines that call the exported functions of the registry.
ConcurrentCallers == {"loop", "task"}

\* The artifacts their loads name.
ConcurrentPaths == {"alpha_v1.so", "alpha_v2.so"}

\* The hooks that the step of caller t has called: what the step added to the
\* log of its call (a call that starts has a log of its own).
HooksCalled(t) ==
    IF call[t].pc = "idle" THEN call'[t].log
    ELSE SubSeq(call'[t].log, Len(call[t].log) + 1, Len(call'[t].log))

\* A step of one caller of LoadPlugin or UnloadPlugin; loop.log keeps the
\* hooks called by both callers, in order. Each step is one of the sections
\* of manager.go that run under mgr.mu, or one that runs outside it.
ConcurrentStep(t) ==
    /\ \/ \E path \in ConcurrentPaths : CallLoad(t, path)
       \/ StepOpen(t)
       \/ StepCheck(t)
       \/ StepOnLoad(t)
       \/ StepInstall(t)
       \/ CallUnload(t, "alpha")
    /\ loop' = [loop EXCEPT !.log = @ \o HooksCalled(t)]

ConcurrentNext == \E t \in ConcurrentCallers : ConcurrentStep(t)

ConcurrentInit ==
    /\ plugins = {}
    /\ pluginPaths = {}
    /\ call = [t \in ConcurrentCallers |-> IdleCall]
    /\ pnow = 0
    /\ RateIdle
    /\ ChatIdle
    /\ LoopIdle

SpecConcurrent == ConcurrentInit /\ [][ConcurrentNext /\ UNCHANGED <<rvars, cvars, task>>]_vars

\* The hook calls on plugin object obj, in order: "load" for an OnLoad that
\* returned nil, "unload" for an OnUnload.
RECURSIVE HooksOn(_, _)
HooksOn(log, obj) ==
    IF log = <<>> THEN <<>>
    ELSE (IF Head(log).obj # obj THEN <<>>
          ELSE IF Head(log).hook = "OnUnload" THEN <<"unload">>
          ELSE IF Head(log).err THEN <<>>
          ELSE <<"load">>) \o HooksOn(Tail(log), obj)

\* No two loads without an unload between them, and no two unloads without a
\* load between them.
Alternates(seq) == \A i \in 1..(Len(seq) - 1) : seq[i] # seq[i + 1]

PluginObjects == {"alpha_v1", "alpha_v2", "beta_v1", "beta_v2"}

\* C35: in every interleaving of the calls of two goroutines, the load hook of
\* a plugin object is not called again while it is loaded, its unload hook is
\* called at most once per successful load hook, and the registry holds at
\* most one entry per name.
C35_HooksAlternatePerInstance ==
    /\ \A obj \in PluginObjects : Alternates(HooksOn(loop.log, obj))
    /\ \A e, f \in plugins : e.name = f.name => e = f

\* Two loads of the same artifact into a registry without it ran together:
\* each called the load hook, and no hook returned an error.
LoadedTwice ==
    /\ \A t \in ConcurrentCallers :
          /\ call[t].op = "load"
          /\ call[t].path = "alpha_v1.so"
          /\ call[t].log = <<HookEvent("OnLoad", "alpha_v1", FALSE)>>
    /\ loop.log = <<HookEvent("OnLoad", "alpha_v1", FALSE), HookEvent("OnLoad", "alpha_v1", FALSE)>>

\* A replacing load and an unload ran together: the unload hook of the one
\* registered object was called by both, after its one load.
UnloadedTwice ==
    /\ call["loop"].op = "load"
    /\ call["task"].op = "unload"
    /\ HooksOn(loop.log, "alpha_v1") = <<"load", "unload", "unload">>
    /\ \A i \in 1..Len(loop.log) : ~loop.log[i].err


(***************************************************************************)
(*          THE CLAIM ABOUT HOOKS AND THE REGISTRY LOCK (C36)              *)
(***************************************************************************)

\* The read goroutine and mgr.mu: loop.mu is "free" or the goroutine that
\* holds the mutex, loop.fn the registry function it is in, loop.hook and
\* loop.obj the plugin method it is running, loop.cb whether that method has
\* called a getter of the registry, loop.log the methods run and whether the
\* mutex was held at that moment.
LockStart ==
    [pc |-> "idle", mu |-> "free", fn |-> "none", hook |-> "none", obj |-> "none",
     arg |-> "", cb |-> FALSE, todo |-> <<>>, log |-> <<>>]

\* The goroutine calls a method of a plugin.
EnterHook(l, fn, hook, obj, arg) ==
    [l EXCEPT !.pc = "hook", !.fn = fn, !.hook = hook, !.obj = obj, !.arg = arg, !.cb = FALSE,
              !.log = Append(@, [hook |-> hook, obj |-> obj, locked |-> l.mu # "free"])]

\* The function returns: the mutex is released (by Unlock or the deferred one).
Leave(l) == [l EXCEPT !.pc = "idle", !.mu = "free", !.fn = "none", !.hook = "none",
                      !.obj = "none", !.arg = "", !.cb = FALSE, !.todo = <<>>]

\* plugin.HandlePluginCommand: Lock with a deferred Unlock, then the range
\* that calls HandleCommand of the first plugin that lists the command.
LockedCommand(cmd) ==
    /\ loop.pc = "idle"
    /\ pnow < MaxPluginClock
    /\ pnow' = pnow + 1
    /\ \E order \in Orders(plugins) :
          LET r == HandlePluginCommand(order, cmd)
          IN loop' = IF r.invoked = <<>> THEN loop
                     ELSE EnterHook([loop EXCEPT !.mu = "loop"], "HandlePluginCommand",
                                    "HandleCommand", r.invoked[1], cmd)
    /\ UNCHANGED <<plugins, pluginPaths, call>>

\* plugin.UnloadPlugin: Lock, the lookup, and OnUnload of an Unloader.
LockedUnload(name) ==
    /\ loop.pc = "idle"
    /\ pnow < MaxPluginClock
    /\ pnow' = pnow + 1
    /\ IF ~MapHas(plugins, name) THEN UNCHANGED <<plugins, pluginPaths, loop>>
       ELSE IF MapGet(plugins, name).plugin.unloader
       THEN /\ loop' = EnterHook([loop EXCEPT !.mu = "loop"], "UnloadPlugin", "OnUnload",
                                 MapGet(plugins, name).plugin.obj, name)
            /\ UNCHANGED <<plugins, pluginPaths>>
       ELSE /\ plugins' = MapDelete(plugins, name)
            /\ pluginPaths' = MapDelete(pluginPaths, name)
            /\ UNCHANGED loop
    /\ UNCHANGED call

\* plugin.LoadPlugin up to its first hook: OnUnload of the registered version
\* inside the first locked section, or else OnLoad after its Unlock.
LockedLoad(path) ==
    /\ loop.pc = "idle"
    /\ pnow < MaxPluginClock
    /\ pnow' = pnow + 1
    /\ LET plug == PluginOf(path)
       IN IF ArtifactKind(path) # "ok" THEN UNCHANGED loop
          ELSE IF MapHas(plugins, plug.name) /\ SameVersion(MapGet(plugins, plug.name), plug.version)
          THEN UNCHANGED loop
          ELSE IF MapHas(plugins, plug.name) /\ MapGet(plugins, plug.name).plugin.unloader
          THEN loop' = EnterHook([loop EXCEPT !.mu = "loop"], "LoadPlugin", "OnUnload",
                                 MapGet(plugins, plug.name).plugin.obj, path)
          ELSE loop' = EnterHook(loop, "LoadPlugin", "OnLoad", plug.obj, path)
    /\ UNCHANGED <<plugins, pluginPaths, call>>

\* dispatchToPlugins: GetPluginList copies the registry under the mutex and
\* releases it; OnMessage of each plugin follows.
UnlockedDispatch ==
    /\ loop.pc = "idle"
    /\ pnow < MaxPluginClock
    /\ pnow' = pnow + 1
    /\ \E list \in GetPluginObjects(plugins) :
          loop' = IF list = <<>> THEN loop
                  ELSE [EnterHook(loop, "dispatchToPlugins", "OnMessage", Head(list), "")
                           EXCEPT !.todo = Tail(list)]
    /\ UNCHANGED <<plugins, pluginPaths, call>>

\* The plugin method calls plugin.GetPlugins (or GetPluginVersion), whose
\* first statement is mgr.mu.Lock(): with the mutex held, by this same
\* goroutine, the call never returns.
HookCallsRegistry ==
    /\ loop.pc = "hook"
    /\ ~loop.cb
    /\ loop' = IF loop.mu # "free" THEN [loop EXCEPT !.pc = "blocked"]
               ELSE [loop EXCEPT !.cb = TRUE]
    /\ UNCHANGED pvars

\* The plugin method returns, and the function that called it goes on.
HookReturns(err) ==
    /\ loop.pc = "hook"
    /\ CASE loop.fn = "HandlePluginCommand" ->
                /\ loop' = Leave(loop)
                /\ UNCHANGED <<plugins, pluginPaths>>
         [] loop.fn = "UnloadPlugin" ->
                /\ plugins' = MapDelete(plugins, loop.arg)
                /\ pluginPaths' = MapDelete(pluginPaths, loop.arg)
                /\ loop' = Leave(loop)
         [] loop.fn = "LoadPlugin" /\ loop.hook = "OnUnload" ->
                /\ pluginPaths' = MapDelete(pluginPaths, PluginOf(loop.arg).name)
                /\ loop' = EnterHook([loop EXCEPT !.mu = "free"], "LoadPlugin", "OnLoad",
                                     PluginOf(loop.arg).obj, loop.arg)
                /\ UNCHANGED plugins
         [] loop.fn = "LoadPlugin" /\ loop.hook = "OnLoad" ->
                /\ loop' = Leave(loop)
                /\ IF err THEN UNCHANGED <<plugins, pluginPaths>>
                   ELSE /\ plugins' = MapPut(plugins, LoadedInfo(loop.arg, pnow))
                        /\ pluginPaths' = MapPut(pluginPaths, [name |-> PluginOf(loop.arg).name,
                                                               path |-> loop.arg])
         [] OTHER ->
                /\ loop' = IF loop.todo = <<>> THEN Leave(loop)
                           ELSE [EnterHook(loop, "dispatchToPlugins", "OnMessage", Head(loop.todo), "")
                                    EXCEPT !.todo = Tail(loop.todo)]
                /\ UNCHANGED <<plugins, pluginPaths>>
    /\ UNCHANGED <<call, pnow>>

LockNext ==
    \/ \E cmd \in {"zap", "echo", "nope"} : LockedCommand(cmd)
    \/ \E name \in PluginNames : LockedUnload(name)
    \/ \E path \in {"alpha_v1.so", "alpha_v2.so", "beta_v2.so"} : LockedLoad(path)
    \/ UnlockedDispatch
    \/ HookCallsRegistry
    \/ \E err \in BOOLEAN : HookReturns(err)

LockInit ==
    /\ RegistryLoaded({"alpha_v1.so", "beta_v1.so"})
    /\ RateIdle
    /\ ChatIdle
    /\ loop = LockStart
    /\ task = NoTask

SpecLock == LockInit /\ [][LockNext /\ UNCHANGED <<rvars, cvars, task>>]_vars

\* C36: no method of a plugin runs while mgr.mu is held, and the read
\* goroutine is never blocked on mgr.mu.
C36_NoHookUnderRegistryLock ==
    /\ loop.pc = "hook" => loop.mu = "free"
    /\ loop.pc # "blocked"

\* OnUnload, called by UnloadPlugin, asked the registry for the loaded
\* plugins: the goroutine waits for the mutex it holds.
BlockedInUnloadHook ==
    /\ loop.pc = "blocked"
    /\ loop.fn = "UnloadPlugin"
    /\ loop.hook = "OnUnload"
    /\ loop.mu = "loop"

\* The same for a plugin's command handler.
BlockedInCommandHandler ==
    /\ loop.pc = "blocked"
    /\ loop.fn = "HandlePluginCommand"
    /\ loop.hook = "HandleCommand"

\* OnLoad and OnMessage run without the mutex: their call of the registry
\* returned.
CallbackReturned ==
    /\ loop.pc = "hook"
    /\ loop.hook \in {"OnLoad", "OnMessage"}
    /\ loop.cb
    /\ loop.mu = "free"


(***************************************************************************)
(*             THE CLAIM ABOUT ONE WARNING PER LINE (C37)                  *)
(***************************************************************************)

\* C37: the handling of one chat line raises the warning count of no
\* identity by more than one.
C37_OneWarningPerLine ==
    [][\A h \in Hostmasks :
          GetWarningCount(tracker', h) <= GetWarningCount(tracker, h) + 1]_vars

\* One command line took the spam branch of HandleChannelMessage and then the
\* one of HandleCommand: the sender, warned for the first time by this line,
\* is demoted by it.
DemotedByOneLine ==
    /\ ev.kind = "channel"
    /\ ev.spam = <<[check |-> "message", reached |-> FALSE], [check |-> "command", reached |-> TRUE]>>
    /\ Replied(ev, "command_auto_ignored")
    /\ GetWarningCount(tracker, ev.hostmask) = 2
    /\ tracker.warningThreshold = 2


(***************************************************************************)
(*          THE CLAIM ABOUT THE OWNER FIELDS ACROSS A SAVE (C38)           *)
(***************************************************************************)

\* A call of userlevels.SaveHostmasks().
DoSaveHostmasks(readFails, outcome) ==
    /\ settings' = SaveHostmasksRead(World, readFails, outcome).settings
    /\ UNCHANGED <<users, hostmaskUsers, pending, channelSettings, ev, rvars>>

SaveNext ==
    \/ \E h \in LevelHostmasks, l \in Ignored..Owner : DoSetUserLevelByHostmask(h, l)
    \/ \E readFails \in BOOLEAN, outcome \in SaveOutcomes : DoSaveHostmasks(readFails, outcome)

\* The level maps set by direct calls and saved, from each start file.
InitSave == PluginInit /\ LoopIdle /\ (\E f \in StartFiles : Started(f))

SpecSave == InitSave /\ [][SaveNext /\ UNCHANGED <<pvars, lvars>>]_vars

\* The owner fields as config.LoadSettings reads them back.
OwnerFields(f) ==
    [err |-> LoadSettings(f).err,
     ownerVerified |-> LoadSettings(f).s.ownerVerified,
     ownerPasshash |-> LoadSettings(f).s.ownerPasshash,
     ownerHostmask |-> LoadSettings(f).s.ownerHostmask]

\* C38: a save of the hostmask levels that writes the file leaves the owner
\* fields read back from it as they were, also when the read of the existing
\* settings fails at the save.
C38_SaveKeepsOwnerFields ==
    [][\A readFails \in BOOLEAN :
          DoSaveHostmasks(readFails, "ok") => OwnerFields(settings') = OwnerFields(settings)]_vars

\* The same for the saves whose read of the settings succeeds.
SaveAfterGoodReadKeepsOwner ==
    [][(DoSaveHostmasks(FALSE, "ok") /\ ~LoadSettings(settings).err)
          => OwnerFields(settings') = OwnerFields(settings)]_vars

\* The settings file of a bot that lost its owner record: it holds the level
\* Owner for the hostmask that was verified, and no verified owner.
OwnerRecordLost ==
    /\ ~LoadSettings(settings).err
    /\ ~LoadSettings(settings).s.ownerVerified
    /\ LoadSettings(settings).s.ownerPasshash = <<>>
    /\ Get(LoadSettings(settings).s.hostmasks, <<"al", "u@h1">>, Regular) = Owner

(***************************************************************************)
(*        THE CLAIM ABOUT CHANNEL ENABLE AND CHANNEL DISABLE (C39)         *)
(***************************************************************************)

\* The channel words given to the command; strings.HasPrefix(channel, "#")
\* decides whether "#" is put in front.
ChannelWords == {"#c", "c", "#d"}

WithHash(channel) ==
    CASE channel = "c" -> "#c"
      [] channel = "d" -> "#d"
      [] OTHER -> channel

\* The command words given; strings.TrimPrefix(args[2], "!").
CommandWords == {"say", "!say", "op"}

TrimBang(word) ==
    CASE word = "!say" -> "say"
      [] word = "!op" -> "op"
      [] word = "!help" -> "help"
      [] OTHER -> word

\* channelCmd, subcommands enable and disable: BotConfig.ChannelSettings
\* afterwards. The lists are changed in memory before SaveChannelSettings is
\* called, so the outcome of the save decides the reply only.
channelCmd(cfg, args) ==
    IF Len(args) < 3 \/ args[1] \notin {"enable", "disable"} THEN cfg
    ELSE LET channel == WithHash(args[2])
             command == TrimBang(args[3])
             channelCfg == Get(cfg, channel, NoChannelConfig)
             others(list) == SelectSeq(list, LAMBDA cmd : cmd # command)
             added(list) == IF Contains(list, command) THEN list ELSE Append(list, command)
         IN IF args[1] = "enable"
            THEN Put(cfg, channel, [enabled |-> added(channelCfg.enabled),
                                    disabled |-> others(channelCfg.disabled)])
            ELSE Put(cfg, channel, [enabled |-> others(channelCfg.enabled),
                                    disabled |-> added(channelCfg.disabled)])

\* The router has called channelCmd with these arguments.
DoChannelCmd(args, save) ==
    /\ channelSettings' = channelCmd(channelSettings, args)
    /\ ev' = [kind |-> "channelCmd", args |-> args, before |-> channelSettings,
              reply |-> IF Len(args) < 3 THEN "usage"
                        ELSE IF SaveFailed(save) THEN "save_error" ELSE args[1] \o "d"]
    /\ UNCHANGED <<users, hostmaskUsers, settings, pending, rvars>>

ChannelArgs ==
    {<<sub, ch, cmd>> : sub \in {"enable", "disable"}, ch \in ChannelWords, cmd \in CommandWords}
        \cup {<<"enable", "#c">>}

ChannelNext == \E args \in ChannelArgs, save \in {"ok", "create_error"} : DoChannelCmd(args, save)

\* The bot of a later run with no channel policy on file, given channel commands.
InitChannel == PluginInit /\ LoopIdle /\ Started(VerifiedFile)

SpecChannel == InitChannel /\ [][ChannelNext /\ UNCHANGED <<pvars, lvars>>]_vars

PolicyNames == {"say", "op", "help"}

\* The last step was channel <sub> <channel> <command>.
ChannelCmdRan(sub) == ev.kind = "channelCmd" /\ Len(ev.args) = 3 /\ ev.args[1] = sub

Permitted(cfg, channel, name) == IsCommandEnabledForChannel(cfg, channel, name)

\* No command other than the one named changed between permitted and rejected
\* in the channel named.
OthersUnchanged ==
    \A name \in PolicyNames \ {TrimBang(ev.args[3])} :
        Permitted(channelSettings, WithHash(ev.args[2]), name)
            <=> Permitted(ev.before, WithHash(ev.args[2]), name)

\* C39 as stated: enable makes the command permitted in the channel, disable
\* makes it rejected, and neither changes whether another command is permitted there.
C39_AsStated ==
    /\ ChannelCmdRan("enable") =>
          Permitted(channelSettings, WithHash(ev.args[2]), TrimBang(ev.args[3])) /\ OthersUnchanged
    /\ ChannelCmdRan("disable") =>
          ~Permitted(channelSettings, WithHash(ev.args[2]), TrimBang(ev.args[3])) /\ OthersUnchanged

\* C39: enable makes the command permitted in the channel and disable makes it
\* rejected, whatever the save returns. Enable leaves every other command as it
\* was when the enabled list of the channel held an entry before, and otherwise
\* leaves every other command rejected. Disable leaves every other command as it
\* was unless the enabled list held that command and nothing else, and then
\* another command is permitted exactly if it is not on the disabled list. The policy
\* of every other channel is unchanged.
C39_EnableDisableEffect ==
    LET channel == WithHash(ev.args[2])
        command == TrimBang(ev.args[3])
        before == GetChannelConfig(ev.before, channel)
        rest == PolicyNames \ {command}
    IN /\ ChannelCmdRan("enable") =>
             /\ Permitted(channelSettings, channel, command)
             /\ IF before.enabled # <<>> THEN OthersUnchanged
                ELSE \A name \in rest : ~Permitted(channelSettings, channel, name)
       /\ ChannelCmdRan("disable") =>
             /\ ~Permitted(channelSettings, channel, command)
             /\ IF Elems(before.enabled) # {command} THEN OthersUnchanged
                ELSE \A name \in rest :
                        Permitted(channelSettings, channel, name)
                            <=> ~Contains(before.disabled, name)
       /\ (ChannelCmdRan("enable") \/ ChannelCmdRan("disable")) =>
             \A other \in {"#c", "#d"} \ {channel} :
                 GetChannelConfig(channelSettings, other) = GetChannelConfig(ev.before, other)

\* The first enable of a channel: say was enabled where every command was
\* permitted, and op and help are rejected there since.
C39_Witness ==
    /\ ChannelCmdRan("enable")
    /\ ev.args = <<"enable", "c", "!say">>
    /\ ev.before = EmptyMap
    /\ Permitted(channelSettings, "#c", "say")
    /\ ~Permitted(channelSettings, "#c", "op")
    /\ Permitted(ev.before, "#c", "op")
    /\ ev.reply = "save_error"

\* The only enabled command was disabled: op, rejected before, is permitted.
DisableReopened ==
    /\ ChannelCmdRan("disable")
    /\ GetChannelConfig(ev.before, "#c").enabled = <<"say">>
    /\ ~Permitted(ev.before, "#c", "op")
    /\ Permitted(channelSettings, "#c", "op")
    /\ ~Permitted(channelSettings, "#c", "say")

(***************************************************************************)
(*     THE CLAIM ABOUT A SENDER WITH THE OWNER'S NICKNAME ONLY (C40)       *)
(***************************************************************************)

ImpostorLines == {Line(FALSE, TRUE, <<"op", "bo">>), Line(FALSE, TRUE, <<"setlevel", "bo", "admin">>)}

ImpostorNext ==
    \/ \E h \in Hostmasks, m \in ImpostorLines : ChannelMessage(h, m, "ok")
    \/ \E h \in Hostmasks, m \in VerifyLines, save \in {"ok", "create_error"} :
          PrivateMessage(h, m, "ok", save)

\* A first run in which a second hostmask with the owner's nickname sends too.
SpecImpostor == InitChat /\ [][ImpostorNext /\ UNCHANGED <<pvars, lvars>>]_vars

\* The hostmask has the nickname of the verified owner, is not the verified
\* hostmask and has no level record of its own.
OwnerNickOnly(h) ==
    /\ OwnerOnRecord(LoadSettings(settings))
    /\ PrefixName(h) = PrefixName(LoadSettings(settings).s.ownerHostmask)
    /\ h # LoadSettings(settings).s.ownerHostmask
    /\ ~Has(hostmaskUsers, h)

\* C40: once the owner is verified, a hostmask that has the owner's nickname
\* only resolves to no level above Regular and passes neither the Owner check
\* nor the Admin check, and no Admin or Owner command of such a sender is run.
C40_OwnerNickAloneGivesNothing ==
    /\ \A h \in Hostmasks :
          OwnerNickOnly(h) =>
              /\ GetUserLevelByHostmask(World, h) <= Regular
              /\ ~HasPermission(World, h, Owner)
              /\ ~HasPermission(World, h, Admin)
    /\ (ev.kind = "channel" /\ OwnerNickOnly(ev.hostmask)) => ev.ran = <<>>

\* The part about the Owner check: it passes for no such hostmask, and no
\* setlevel of such a sender is run.
OwnerNickAloneFailsOwnerCheck ==
    /\ \A h \in Hostmasks : OwnerNickOnly(h) => ~HasPermission(World, h, Owner)
    /\ (ev.kind = "channel" /\ OwnerNickOnly(ev.hostmask)) =>
          \A i \in 1..Len(ev.ran) : ev.ran[i].name # "setlevel"

\* al!u@h1 is the verified owner, and op was run for al!u@h2.
ImpostorRanOp ==
    /\ LoadSettings(settings).s.ownerHostmask = <<"al", "u@h1">>
    /\ ev.kind = "channel"
    /\ ev.hostmask = <<"al", "u@h2">>
    /\ OwnerNickOnly(ev.hostmask)
    /\ ev.level = Owner
    /\ ev.ran = <<[name |-> "op", args |-> <<"bo">>]>>

\* The same sender was refused setlevel.
ImpostorRefusedSetLevel ==
    /\ LoadSettings(settings).s.ownerHostmask = <<"al", "u@h1">>
    /\ ev.kind = "channel"
    /\ ev.hostmask = <<"al", "u@h2">>
    /\ OwnerNickOnly(ev.hostmask)
    /\ ev.ran = <<>>
    /\ Replied(ev, "denied_owner")


=============================================================================
